---- MODULE Spec2Model ----
(***************************************************************************)
(* Model of the sanctions consolidation pipeline:                          *)
(*   main.py               SanctionsWorkflow (consolidation, Watchlist and *)
(*                         DOB_DJ normalisation)                           *)
(*   ofac_extractor.py     OFACSanctionsExtractor                          *)
(*   un_sanctions_parser.py parse_un_sanctions_xml                         *)
(*                                                                         *)
(* Text is modelled as a sequence of one-character strings, so that        *)
(* lower(), strip(), substring tests, regular expressions, strptime and    *)
(* strftime are computed character by character as the code does.          *)
(* A missing cell (pandas NaN) is the one-element sequence NaN.            *)
(***************************************************************************)
EXTENDS Integers, Sequences, FiniteSets, TLC

VARIABLES
    \* ---- step6_consolidate_data (main.py) ----
    files,               \* the CSV files on disk, in glob order
    pc,                  \* position inside step6_consolidate_data
    idx,                 \* loop index over all_csv_files
    all_dataframes,      \* tables appended so far
    total_records,
    processing_summary,
    final_df,            \* the table written to self.final_output
    final_summary,
    \* ---- pure functions applied to one input ----
    value, once, twice,          \* clean_watchlist_value
    pdf_number, eu_result,       \* extract_eu_watchlist_from_number
    date_str, dob_result,        \* convert_date_format
    \* ---- OFACSanctionsExtractor.process_sanctions_data ----
    ofac_doc,            \* what the four entity lookups find in the XML
    ofac_pc,
    entities,            \* the entity elements chosen for processing
    ofac_i,              \* loop index over entities
    entity_data,         \* result of the last extract_entity_data call
    extracted_data,
    ofac_df,             \* the DataFrame returned
    \* ---- parse_un_sanctions_xml ----
    un_doc,              \* the XML root: dateGenerated and the two sections
    un_pc,
    un_i,                \* loop index inside the current section
    target_dates,
    individuals_data,
    entities_data,
    un_files,            \* the CSV files written
    \* ---- SanctionsWorkflow.run_workflow and the batch steps 1-5 ----
    pdf_files,           \* per document, what its processing will meet
    gemini_api_key,
    ofac_source,         \* what step 4 meets at the OFAC source
    un_source,           \* what step 5 meets at the UN source
    wf_pc,               \* position inside run_workflow
    wf_step,             \* the loop variable i of run_workflow
    wf_i,                \* loop index inside a batch step
    results,             \* the result list a batch step is building
    successful_conversions,
    conversion_results,  \* self.conversion_results
    base64_results,      \* self.base64_results
    disk,                \* the CSV files written by steps 3-5
    success_steps,
    wf_result,           \* what run_workflow returned
    run_no,              \* the number of this run in the working directory
    \* ---- GeminiMarkdownToCSVConverter.convert_markdown_to_csv ----
    csv_parts,           \* the collaborator's response: fences and tabular block
    save_ok,             \* whether save_csv_file can write the output
    gemini_result,       \* the dictionary returned
    gemini_warned        \* whether the structure warning was printed

vars6 == <<files, pc, idx, all_dataframes, total_records, processing_summary,
           final_df, final_summary>>
varsClean == <<value, once, twice>>
varsEU == <<pdf_number, eu_result>>
varsDate == <<date_str, dob_result>>
varsOFAC == <<ofac_doc, ofac_pc, entities, ofac_i, entity_data, extracted_data, ofac_df>>
varsUN == <<un_doc, un_pc, un_i, target_dates, individuals_data, entities_data, un_files>>
varsWF == <<pdf_files, gemini_api_key, ofac_source, un_source, wf_pc, wf_step, wf_i, results,
           successful_conversions, conversion_results, base64_results, disk,
           success_steps, wf_result, run_no>>
varsGemini == <<csv_parts, save_ok, gemini_result, gemini_warned>>
vars == <<vars6, varsClean, varsEU, varsDate, varsOFAC, varsUN, varsWF, varsGemini>>

(***************************************************************************)
(* Bounds of the model                                                     *)
(***************************************************************************)
MaxRows == 3          \* rows over all source tables of one consolidation
MaxLen == 3           \* length of the generated Watchlist texts
MaxDigits == 9        \* length of the generated PDF numbers

(***************************************************************************)
(* Text                                                                    *)
(***************************************************************************)
NaN == <<"NaN">>
None == <<"None">>        \* Python None / "not yet computed"

UpperAlpha == <<"A","B","C","D","E","F","G","H","I","J","K","L","M",
                "N","O","P","Q","R","S","T","U","V","W","X","Y","Z">>
LowerAlpha == <<"a","b","c","d","e","f","g","h","i","j","k","l","m",
                "n","o","p","q","r","s","t","u","v","w","x","y","z">>
Digits == {"0","1","2","3","4","5","6","7","8","9"}

\* The characters in code-point order (those the model uses).
Ord == <<" ","(",")","-",".","/","0","1","2","3","4","5","6","7","8","9",":">>
       \o UpperAlpha \o <<"_">> \o LowerAlpha

Code(c) == CHOOSE i \in 1..Len(Ord) : Ord[i] = c

IsDigit(c) == c \in Digits
IsUpper(c) == \E i \in 1..Len(UpperAlpha) : UpperAlpha[i] = c
IsLower(c) == \E i \in 1..Len(LowerAlpha) : LowerAlpha[i] = c
IsAlpha(c) == IsUpper(c) \/ IsLower(c)
IsSpace(c) == c \in {" ", "\t", "\n", "\r"}
IsWord(c) == IsAlpha(c) \/ IsDigit(c) \/ c = "_"

Min(S) == CHOOSE x \in S : \A y \in S : x <= y
Max(S) == CHOOSE x \in S : \A y \in S : x >= y

\* str.lower()
LowerChar(c) ==
    IF IsUpper(c)
    THEN LowerAlpha[CHOOSE i \in 1..Len(UpperAlpha) : UpperAlpha[i] = c]
    ELSE c
Lower(s) == [i \in 1..Len(s) |-> LowerChar(s[i])]

\* str.strip()
Strip(s) ==
    LET keep == {i \in 1..Len(s) : ~IsSpace(s[i])}
    IN  IF keep = {} THEN <<>> ELSE SubSeq(s, Min(keep), Max(keep))

\* str.lstrip('0')
LStripZeros(s) ==
    LET keep == {i \in 1..Len(s) : s[i] # "0"}
    IN  IF keep = {} THEN <<>> ELSE SubSeq(s, Min(keep), Len(s))

\* sub in s
Contains(s, sub) ==
    \E i \in 1..(Len(s) - Len(sub) + 1) : SubSeq(s, i, i + Len(sub) - 1) = sub

StartsAt(s, i, sub) ==
    /\ i >= 1
    /\ i + Len(sub) - 1 <= Len(s)
    /\ SubSeq(s, i, i + Len(sub) - 1) = sub

AllDigits(s) == \A i \in 1..Len(s) : IsDigit(s[i])

\* str(x) of a cell: NaN prints as "nan"
StrOf(v) == IF v = NaN THEN <<"n","a","n">> ELSE v

\* s1 < s2 in Python's string order
RECURSIVE StrLess(_, _)
StrLess(a, b) ==
    IF b = <<>> THEN FALSE
    ELSE IF a = <<>> THEN TRUE
    ELSE IF Code(Head(a)) # Code(Head(b)) THEN Code(Head(a)) < Code(Head(b))
    ELSE StrLess(Tail(a), Tail(b))

S_sanctions_from_ == <<"s","a","n","c","t","i","o","n","s","_","f","r","o","m","_">>
S_sanctions_cleaned_ == <<"s","a","n","c","t","i","o","n","s","_","c","l","e","a","n","e","d","_">>
S_csv == <<".","c","s","v">>
S_OFAC_label == <<"O","F","A","C"," ","-"," ","S","p","e","c","i","a","l","l","y"," ","D","e","s","i","g","n","a","t","e","d"," ","N","a","t","i","o","n","a","l"," ","L","i","s","t">>
S_UN_source == <<"U","N"," ","S","e","c","u","r","i","t","y"," ","C","o","u","n","c","i","l">>
K_un == <<"u","n">>
K_united_nations == <<"u","n","i","t","e","d"," ","n","a","t","i","o","n","s">>
K_security_council == <<"s","e","c","u","r","i","t","y"," ","c","o","u","n","c","i","l">>
K_ofac == <<"o","f","a","c">>
K_specially_designated == <<"s","p","e","c","i","a","l","l","y"," ","d","e","s","i","g","n","a","t","e","d">>
K_treasury == <<"t","r","e","a","s","u","r","y">>
K_eu == <<"e","u">>
K_nan == <<"n","a","n">>
S_UN == <<"U","N">>
S_OFAC == <<"O","F","A","C">>
S_EU == <<"E","U">>
S_Unknown == <<"U","n","k","n","o","w","n">>
S_timestamp == <<"2","0","2","5","0","7","3","0","_","1","2","0","0","0","0">>
S_today == <<"2","0","2","5","-","0","7","-","3","0">>

(***************************************************************************)
(* main.py: Watchlist resolution                                           *)
(***************************************************************************)

\* extract_eu_watchlist_from_number keeping the leading zeros of the number
extract_eu_watchlist_keep_zeros(n) ==
    IF n = <<>> \/ Len(n) < 8 THEN S_EU
    ELSE IF AllDigits(n) /\ Len(n) >= 8
         THEN LET year == SubSeq(n, 1, 4)
                  number == SubSeq(n, 5, Len(n))
              IN  IF number # <<>> THEN year \o <<"/">> \o number ELSE S_EU
         ELSE S_EU

\* extract_eu_watchlist_from_number(pdf_number)
extract_eu_watchlist_from_number(n) ==
    IF n = <<>> \/ Len(n) < 8 THEN S_EU
    ELSE IF AllDigits(n) /\ Len(n) >= 8
         THEN LET year == SubSeq(n, 1, 4)
                  number == LStripZeros(SubSeq(n, 5, Len(n)))
              IN  IF number # <<>> THEN year \o <<"/">> \o number ELSE S_EU
         ELSE S_EU

\* re.search(r'\d{4}/\d+', s) is not None
HasEuPattern(s) ==
    \E i \in 1..Len(s) :
        /\ i + 5 <= Len(s)
        /\ \A k \in 0..3 : IsDigit(s[i + k])
        /\ s[i + 4] = "/"
        /\ IsDigit(s[i + 5])

\* clean_watchlist_value returning the lower-cased text it matched on
clean_watchlist_value_lower(v) ==
    IF v = NaN \/ v = <<>> THEN S_Unknown
    ELSE LET value_str == Strip(StrOf(v))
             low == Lower(value_str)
         IN  IF Contains(low, K_un) \/ Contains(low, K_united_nations)
                \/ Contains(low, K_security_council)
             THEN S_UN
             ELSE IF Contains(low, K_ofac) \/ Contains(low, K_specially_designated)
                     \/ Contains(low, K_treasury)
             THEN S_OFAC
             ELSE IF HasEuPattern(value_str) THEN value_str
             ELSE IF Contains(low, K_eu) THEN S_EU
             ELSE low

\* clean_watchlist_value(value), the function standardize_watchlist applies
clean_watchlist_value(v) ==
    IF v = NaN \/ v = <<>> THEN S_Unknown
    ELSE LET value_str == Strip(StrOf(v))
             low == Lower(value_str)
         IN  IF Contains(low, K_un) \/ Contains(low, K_united_nations)
                \/ Contains(low, K_security_council)
             THEN S_UN
             ELSE IF Contains(low, K_ofac) \/ Contains(low, K_specially_designated)
                     \/ Contains(low, K_treasury)
             THEN S_OFAC
             ELSE IF HasEuPattern(value_str) THEN value_str
             ELSE IF Contains(low, K_eu) THEN S_EU
             ELSE value_str

\* re.search(r'sanctions_from_(\d+)_', filename): the group, or None.
\* The leftmost start wins; \d+ is greedy and the next character must be "_",
\* so only the maximal run of digits can match.
EuNumberMatch(filename) ==
    LET starts == {i \in 1..Len(filename) :
                     /\ StartsAt(filename, i, S_sanctions_from_)
                     /\ \E j \in (i + Len(S_sanctions_from_))..Len(filename) :
                          /\ \A k \in (i + Len(S_sanctions_from_))..j : IsDigit(filename[k])
                          /\ j + 1 <= Len(filename)
                          /\ filename[j + 1] = "_"}
    IN  IF starts = {} THEN None
        ELSE LET i == Min(starts)
                 b == i + Len(S_sanctions_from_)
                 j == CHOOSE j \in b..Len(filename) :
                        /\ \A k \in b..j : IsDigit(filename[k])
                        /\ j + 1 <= Len(filename)
                        /\ filename[j + 1] = "_"
             IN  SubSeq(filename, b, j)

\* The value update_watchlist_column computes for a whole table: it reads the
\* FIRST row's Source and Watchlist (df[...].iloc[0]) and the file name.
WatchlistFromSource(df) ==
    IF "Source" \in df.columns
    THEN LET first_source == IF Len(df.rows) > 0
                             THEN Lower(StrOf(df.rows[1].Source)) ELSE <<>>
         IN  IF Contains(first_source, K_un) \/ Contains(first_source, K_security_council)
             THEN S_UN ELSE <<>>
    ELSE <<>>

WatchlistFromColumn(df) ==
    LET raw == IF "Watchlist" \in df.columns
               THEN (IF Len(df.rows) > 0 THEN df.rows[1].Watchlist ELSE <<>>)
               ELSE <<>>          \* df['Watchlist'] = '' when the column is absent
        first_watchlist == IF Len(df.rows) > 0 THEN Lower(StrOf(raw)) ELSE <<>>
    IN  IF Contains(first_watchlist, K_ofac) \/ Contains(first_watchlist, K_specially_designated)
        THEN S_OFAC
        ELSE IF first_watchlist # <<>> /\ first_watchlist # K_nan
        THEN raw
        ELSE <<>>

WatchlistFromFilename(filename) ==
    IF Contains(filename, S_sanctions_from_)
    THEN LET m == EuNumberMatch(filename)
         IN  IF m # None THEN extract_eu_watchlist_from_number(m) ELSE S_EU
    ELSE <<>>

\* update_watchlist_column testing the Watchlist column before the Source column
WatchlistValue_column_first(df, filename) ==
    LET a == WatchlistFromColumn(df)
        b == IF a = <<>> THEN WatchlistFromSource(df) ELSE a
        c == IF b = <<>> THEN WatchlistFromFilename(filename) ELSE b
    IN  IF c = <<>> THEN S_Unknown ELSE c

WatchlistValue(df, filename) ==
    LET a == WatchlistFromSource(df)
        b == IF a = <<>> THEN WatchlistFromColumn(df) ELSE a
        c == IF b = <<>> THEN WatchlistFromFilename(filename) ELSE b
    IN  IF c = <<>> THEN S_Unknown ELSE c

\* update_watchlist_column(df, filename): df['Watchlist'] = watchlist_value
update_watchlist_column(df, filename) ==
    LET w == WatchlistValue(df, filename)
    IN  [columns |-> df.columns \cup {"Watchlist"},
         rows |-> [i \in 1..Len(df.rows) |-> [df.rows[i] EXCEPT !.Watchlist = w]]]

\* standardize_watchlist(df)
standardize_watchlist(df) ==
    IF "Watchlist" \notin df.columns THEN df
    ELSE [df EXCEPT !.rows = [i \in 1..Len(df.rows) |->
            [df.rows[i] EXCEPT !.Watchlist = clean_watchlist_value(df.rows[i].Watchlist)]]]

(***************************************************************************)
(* Dates: datetime.strptime / strftime                                     *)
(***************************************************************************)
NoDate == [y |-> 0, m |-> 0, d |-> 0]          \* strptime raised ValueError

MonthAbbr == << <<"J","a","n">>, <<"F","e","b">>, <<"M","a","r">>, <<"A","p","r">>,
                <<"M","a","y">>, <<"J","u","n">>, <<"J","u","l">>, <<"A","u","g">>,
                <<"S","e","p">>, <<"O","c","t">>, <<"N","o","v">>, <<"D","e","c">> >>

IsLeap(y) == (y % 4 = 0 /\ y % 100 # 0) \/ y % 400 = 0
DaysInMonth(y, m) ==
    IF m = 2 THEN (IF IsLeap(y) THEN 29 ELSE 28)
    ELSE IF m \in {4, 6, 9, 11} THEN 30 ELSE 31

\* datetime(y, m, d) accepts the triple
ValidDate(y, m, d) ==
    /\ y >= 1 /\ y <= 9999
    /\ m >= 1 /\ m <= 12
    /\ d >= 1 /\ d <= DaysInMonth(y, m)

DigitVal(c) == Code(c) - Code("0")
DigitChar(k) == Ord[Code("0") + k]

RECURSIVE NumOf(_)
NumOf(s) ==
    IF s = <<>> THEN 0
    ELSE IF s[Len(s)] = " " THEN 0
    ELSE NumOf(SubSeq(s, 1, Len(s) - 1)) * 10 + DigitVal(s[Len(s)])

RECURSIVE Decimal(_)
Decimal(n) == IF n < 10 THEN <<DigitChar(n)>> ELSE Decimal(n \div 10) \o <<DigitChar(n % 10)>>

Pad2(n) == <<DigitChar(n \div 10), DigitChar(n % 10)>>
\* %Y of strftime (glibc prints the year unpadded)
YearText(y) == Decimal(y)

\* The directive regexes of _strptime:
\*   %d  3[0-1]|[1-2]\d|0[1-9]|[1-9]| [1-9]
\*   %m  1[0-2]|0[1-9]|[1-9]
\*   %Y  \d\d\d\d
IsFieldD(t) ==
    \/ Len(t) = 1 /\ IsDigit(t[1]) /\ t[1] # "0"
    \/ /\ Len(t) = 2
       /\ \/ t[1] = "3" /\ t[2] \in {"0", "1"}
          \/ t[1] \in {"1", "2"} /\ IsDigit(t[2])
          \/ t[1] = "0" /\ IsDigit(t[2]) /\ t[2] # "0"
          \/ t[1] = " " /\ IsDigit(t[2]) /\ t[2] # "0"
IsFieldM(t) ==
    \/ Len(t) = 1 /\ IsDigit(t[1]) /\ t[1] # "0"
    \/ /\ Len(t) = 2
       /\ \/ t[1] = "1" /\ t[2] \in {"0", "1", "2"}
          \/ t[1] = "0" /\ IsDigit(t[2]) /\ t[2] # "0"
IsFieldY(t) == Len(t) = 4 /\ AllDigits(t)
\* %b: a month abbreviation, case-insensitive
IsFieldB(t) == \E m \in 1..12 : Lower(MonthAbbr[m]) = Lower(t)
MonthOfB(t) == CHOOSE m \in 1..12 : Lower(MonthAbbr[m]) = Lower(t)

\* The fields of s between occurrences of the literal separator sep.
RECURSIVE SplitOn(_, _)
SplitOn(s, sep) ==
    LET at == {i \in 1..Len(s) : s[i] = sep}
    IN  IF at = {} THEN <<s>>
        ELSE <<SubSeq(s, 1, Min(at) - 1)>> \o SplitOn(SubSeq(s, Min(at) + 1, Len(s)), sep)

\* The fields of s between runs of white space (a blank in a format is \s+).
RECURSIVE SplitSpace(_)
SplitSpace(s) ==
    LET t == Strip(s)
        at == {i \in 1..Len(t) : IsSpace(t[i])}
    IN  IF t = <<>> THEN <<>>
        ELSE IF at = {} THEN <<t>>
        ELSE <<SubSeq(t, 1, Min(at) - 1)>> \o SplitSpace(SubSeq(t, Min(at) + 1, Len(t)))

\* The three fields of s under a three-directive format whose directives are
\* separated by sep; <<>> when s does not have that layout.  With a blank
\* separator the string must not end with white space, and one leading blank
\* is part of the first field (the " [1-9]" alternative of %d).
Fields(s, sep) ==
    IF sep = " "
    THEN (IF s # <<>> /\ ~IsSpace(s[Len(s)]) /\ Len(SplitSpace(s)) = 3
          THEN (IF ~IsSpace(s[1]) THEN SplitSpace(s)
                ELSE IF ~IsSpace(s[2])
                THEN [SplitSpace(s) EXCEPT ![1] = <<" ">> \o SplitSpace(s)[1]]
                ELSE <<>>)
          ELSE <<>>)
    ELSE (IF Len(SplitOn(s, sep)) = 3 THEN SplitOn(s, sep) ELSE <<>>)

MkDate(y, m, d) == IF ValidDate(y, m, d) THEN [y |-> y, m |-> m, d |-> d] ELSE NoDate

\* datetime.strptime(s, fmt) for fmt.order in "dmY", "Ymd", "mdY" (numeric
\* directives separated by fmt.sep) and "dbY" (%d %b %Y)
strptime(s, fmt) ==
    LET f == Fields(s, fmt.sep)
    IN  IF f = <<>> THEN NoDate
        ELSE IF fmt.order = "dmY"
        THEN (IF IsFieldD(f[1]) /\ IsFieldM(f[2]) /\ IsFieldY(f[3])
              THEN MkDate(NumOf(f[3]), NumOf(f[2]), NumOf(f[1])) ELSE NoDate)
        ELSE IF fmt.order = "Ymd"
        THEN (IF IsFieldY(f[1]) /\ IsFieldM(f[2]) /\ IsFieldD(f[3])
              THEN MkDate(NumOf(f[1]), NumOf(f[2]), NumOf(f[3])) ELSE NoDate)
        ELSE IF fmt.order = "mdY"
        THEN (IF IsFieldM(f[1]) /\ IsFieldD(f[2]) /\ IsFieldY(f[3])
              THEN MkDate(NumOf(f[3]), NumOf(f[1]), NumOf(f[2])) ELSE NoDate)
        ELSE (IF IsFieldD(f[1]) /\ IsFieldB(f[2]) /\ IsFieldY(f[3])
              THEN MkDate(NumOf(f[3]), MonthOfB(f[2]), NumOf(f[1])) ELSE NoDate)

\* date_obj.strftime('%d %b %Y')
strftime_dbY(dt) == Pad2(dt.d) \o <<" ">> \o MonthAbbr[dt.m] \o <<" ">> \o YearText(dt.y)
\* date_obj.strftime('%d/%m/%Y')
strftime_dmY(dt) == Pad2(dt.d) \o <<"/">> \o Pad2(dt.m) \o <<"/">> \o YearText(dt.y)

(***************************************************************************)
(* main.py: standardize_dob_format                                         *)
(***************************************************************************)
\* re.match(r'\d{1,2}\s+[A-Za-z]{3}\s+\d{4}', s): a match at the start of s
HasDobShape(s) ==
    \E n \in {1, 2} : \E a \in 1..Len(s) : \E b \in 1..Len(s) :
        /\ n < a
        /\ \A i \in 1..n : IsDigit(s[i])
        /\ \A i \in (n + 1)..(a - 1) : IsSpace(s[i])
        /\ a + 2 < b
        /\ \A i \in a..(a + 2) : IsAlpha(s[i])
        /\ \A i \in (a + 3)..(b - 1) : IsSpace(s[i])
        /\ b + 3 <= Len(s)
        /\ \A i \in b..(b + 3) : IsDigit(s[i])

\* date_formats with the month-first pattern tried before the day-first ones
date_formats_month_first ==
    << [order |-> "mdY", sep |-> "/"],
       [order |-> "dmY", sep |-> "/"],
       [order |-> "dmY", sep |-> "-"],
       [order |-> "dmY", sep |-> "."],
       [order |-> "Ymd", sep |-> "-"],
       [order |-> "Ymd", sep |-> "/"],
       [order |-> "dmY", sep |-> " "] >>

date_formats ==
    << [order |-> "dmY", sep |-> "/"],
       [order |-> "dmY", sep |-> "-"],
       [order |-> "dmY", sep |-> "."],
       [order |-> "Ymd", sep |-> "-"],
       [order |-> "Ymd", sep |-> "/"],
       [order |-> "mdY", sep |-> "/"],
       [order |-> "dmY", sep |-> " "] >>

\* for fmt in date_formats: try strptime, return on the first success
RECURSIVE TryFormats(_, _, _)
TryFormats(s, fmts, i) ==
    IF i > Len(fmts) THEN s
    ELSE IF strptime(s, fmts[i]) # NoDate THEN strftime_dbY(strptime(s, fmts[i]))
    ELSE TryFormats(s, fmts, i + 1)

convert_date_format(v) ==
    IF v = NaN \/ v = <<>> \/ Strip(StrOf(v)) = <<>> THEN <<>>
    ELSE LET s == Strip(StrOf(v))
         IN  IF HasDobShape(s) THEN s ELSE TryFormats(s, date_formats, 1)

standardize_dob_format(df) ==
    IF "DOB_DJ" \notin df.columns THEN df
    ELSE [df EXCEPT !.rows = [i \in 1..Len(df.rows) |->
            [df.rows[i] EXCEPT !.DOB_DJ = convert_date_format(df.rows[i].DOB_DJ)]]]

(***************************************************************************)
(* ofac_extractor.py: OFACSanctionsExtractor                               *)
(*                                                                         *)
(* An XML element that may be absent is a sequence of length 0 or 1; a     *)
(* text or attribute that may be absent is None.                           *)
(***************************************************************************)
S_add == <<"a","d","d">>
S_modify == <<"m","o","d","i","f","y">>
S_delete == <<"d","e","l","e","t","e">>
S_true == <<"t","r","u","e">>
S_false == <<"f","a","l","s","e">>
S_600 == <<"6","0","0">>
S_601 == <<"6","0","1">>
S_602 == <<"6","0","2">>
S_Individual == <<"I","n","d","i","v","i","d","u","a","l">>
S_Entity == <<"E","n","t","i","t","y">>
S_Vessel == <<"V","e","s","s","e","l">>
S_Type_ == <<"T","y","p","e"," ">>
S_Doc_Type_ == <<"D","o","c"," ","T","y","p","e"," ">>
S_Program_ == <<"P","r","o","g","r","a","m"," ">>
S_male == <<"m","a","l","e">>
S_female == <<"f","e","m","a","l","e">>
S_Male == <<"M","a","l","e">>
S_sep == <<";"," ">>
FT_birthdate == <<"8">>
FT_place_of_birth == <<"9">>
FT_gender == <<"2","2","4">>
FT_nationality == <<"1","0">>
FT_vessel_flag == <<"3">>
S_unknown == <<"u","n","k","n","o","w","n">>
S_Panama == <<"P","a","n","a","m","a">>
S_Liberia == <<"L","i","b","e","r","i","a">>
S_P123 == <<"P","1","2","3">>
S_published == <<"2","0","2","5","-","0","7","-","3","0">>
S_1571 == <<"1","5","7","1">>
S_1550 == <<"1","5","5","0">>
S_circa_1957 == <<"c","i","r","c","a"," ","1","9","5","7">>
doc_type_map ==
    { <<<<"1","5","7","1">>, <<"P","a","s","s","p","o","r","t">>>>,
      <<<<"1","5","8","4">>, <<"N","a","t","i","o","n","a","l"," ","I","D">>>>,
      <<<<"1","6","0","8">>, <<"I","d","e","n","t","i","f","i","c","a","t","i","o","n"," ","N","u","m","b","e","r">>>>,
      <<<<"1","6","2","6">>, <<"V","e","s","s","e","l"," ","R","e","g","i","s","t","r","a","t","i","o","n">>>>,
      <<<<"1","6","3","2">>, <<"R","e","s","i","d","e","n","c","y"," ","N","u","m","b","e","r">>>>,
      <<<<"9","1","2","6","4">>, <<"M","M","S","I">>>>,
      <<<<"9","1","7","6","1">>, <<"R","e","g","i","s","t","r","a","t","i","o","n"," ","N","u","m","b","e","r">>>>,
      <<<<"1","5","7","5">>, <<"D","r","i","v","e","r"," ","L","i","c","e","n","s","e">>>>,
      <<<<"1","5","7","6">>, <<"T","a","x"," ","I","D">>>>,
      <<<<"1","5","7","7">>, <<"S","o","c","i","a","l"," ","S","e","c","u","r","i","t","y"," ","N","u","m","b","e","r">>>>,
      <<<<"1","5","7","8">>, <<"B","u","s","i","n","e","s","s"," ","R","e","g","i","s","t","r","a","t","i","o","n">>>>,
      <<<<"1","5","7","9">>, <<"M","i","l","i","t","a","r","y"," ","I","D">>>> }
program_map ==
    { <<<<"9","1","9","0","1">>, <<"I","R","A","N","-","E","O","1","3","9","0","2">>>>,
      <<<<"9","1","9","0","2">>, <<"I","R","A","N","-","E","O","1","3","9","0","2">>>>,
      <<<<"1","5","5","6">>, <<"U","K","R","A","I","N","E","-","E","O","1","3","6","6","0">>>>,
      <<<<"1","5","5","7">>, <<"U","K","R","A","I","N","E","-","E","O","1","3","6","6","1">>>>,
      <<<<"1","5","5","8">>, <<"U","K","R","A","I","N","E","-","E","O","1","3","6","6","2">>>>,
      <<<<"1","5","5","9">>, <<"U","K","R","A","I","N","E","-","E","O","1","3","6","8","5">>>>,
      <<<<"1","5","6","0">>, <<"R","U","S","S","I","A","-","E","O","1","4","0","2","4">>>>,
      <<<<"1","5","5","0">>, <<"S","D","N">>>>,
      <<<<"1","5","5","1">>, <<"C","R","I","M">>>>,
      <<<<"1","5","5","2">>, <<"S","Y","R","I","A">>>>,
      <<<<"1","5","5","3">>, <<"C","U","B","A">>>>,
      <<<<"1","5","5","4">>, <<"N","O","R","T","H"," ","K","O","R","E","A">>>>,
      <<<<"1","5","5","5">>, <<"N","I","C","A","R","A","G","U","A">>>> }

\* a text that Python treats as true
Truthy(t) == t # None /\ t # <<>>
\* an f-string's rendering of a value that may be None
FStr(v) == IF v = None THEN <<"N","o","n","e">> ELSE v

\* sep.join(parts)
RECURSIVE Join(_, _)
Join(parts, sep) ==
    IF parts = <<>> THEN <<>>
    ELSE IF Len(parts) = 1 THEN parts[1]
    ELSE parts[1] \o sep \o Join(Tail(parts), sep)

RECURSIVE Flatten(_)
Flatten(ss) == IF ss = <<>> THEN <<>> ELSE Head(ss) \o Flatten(Tail(ss))

\* s.split(';')[0].strip()
FirstOfSplit(s) ==
    LET at == {i \in 1..Len(s) : s[i] = ";"}
    IN  Strip(IF at = {} THEN s ELSE SubSeq(s, 1, Min(at) - 1))

\* doc_type_map.get(ref_id, f'Doc Type {ref_id}')
get_document_type_name(ref_id) ==
    IF \E p \in doc_type_map : p[1] = ref_id
    THEN (CHOOSE p \in doc_type_map : p[1] = ref_id)[2]
    ELSE S_Doc_Type_ \o FStr(ref_id)

\* program_map.get(ref_id, f'Program {ref_id}')
get_sanctions_program_name(ref_id) ==
    IF \E p \in program_map : p[1] = ref_id
    THEN (CHOOSE p \in program_map : p[1] = ref_id)[2]
    ELSE S_Program_ \o FStr(ref_id)

\* re.search(r'\b(\d{4})\b', value): the first run of exactly four digits
\* that is not adjacent to a word character; None when there is none
YearMatchAt(s, i) ==
    /\ i + 3 <= Len(s)
    /\ \A k \in i..(i + 3) : IsDigit(s[k])
    /\ (i = 1 \/ ~IsWord(s[i - 1]))
    /\ (i + 3 = Len(s) \/ ~IsWord(s[i + 4]))
year_match(s) ==
    LET at == {i \in 1..Len(s) : YearMatchAt(s, i)}
    IN  IF at = {} THEN None ELSE SubSeq(s, Min(at), Min(at) + 3)

BlankData ==
    [Name |-> <<>>, Aliases |-> <<>>, Type |-> <<>>, Date_of_Birth |-> <<>>,
     Place_of_Birth |-> <<>>, Gender |-> <<>>, Nationality |-> <<>>, COUNTRY |-> <<>>,
     ID_1 |-> <<>>, ID_Type1 |-> <<>>, ID_2 |-> <<>>, ID_Type2 |-> <<>>,
     Date_of_listing |-> <<>>, Watchlist |-> <<>>, Other_info |-> <<>>,
     DOB_DJ |-> <<>>, DOB_YEAR |-> <<>>]
OfacColumns == DOMAIN BlankData

\* data['Type'] from generalInfo/entityType
EntityTypeOf(entity) ==
    IF entity.entityType = <<>> THEN <<>>
    ELSE LET ref_id == entity.entityType[1]
         IN  IF ref_id = S_600 THEN S_Individual
             ELSE IF ref_id = S_601 THEN S_Entity
             ELSE IF ref_id = S_602 THEN S_Vessel
             ELSE S_Type_ \o FStr(ref_id)

\* the non-empty formatted names of all name records, in document order, each
\* with the isPrimary flag of its record
NameEntries(names) ==
    Flatten([k \in 1..Len(names) |->
        LET texts == SelectSeq(names[k].translations, Truthy)
        IN  [j \in 1..Len(texts) |->
                [primary |-> names[k].isPrimary = S_true, text |-> texts[j]]]])
IsPrimaryEntry(n) == n.primary
IsAliasEntry(n) == ~n.primary
\* the last primary name instead of the first
PrimaryName_last(names) ==
    LET prim == SelectSeq(NameEntries(names), IsPrimaryEntry)
    IN  IF prim = <<>> THEN <<>> ELSE prim[Len(prim)].text
\* data['Name']: the first primary name
PrimaryName(names) ==
    LET prim == SelectSeq(NameEntries(names), IsPrimaryEntry)
    IN  IF prim = <<>> THEN <<>> ELSE prim[1].text
\* data['Aliases']
AliasesOf(names) ==
    LET al == SelectSeq(NameEntries(names), IsAliasEntry)
    IN  Join([j \in 1..Len(al) |-> al[j].text], S_sep)

\* the values of the features of one type that have a type element and a
\* non-empty value, in document order
FeatureValues(features, type_id) ==
    LET Usable(f) == f.type # <<>> /\ f.type[1] = type_id /\ Truthy(f.value)
        sel == SelectSeq(features, Usable)
    IN  [j \in 1..Len(sel) |-> sel[j].value]
LastOf(values) == IF values = <<>> THEN <<>> ELSE values[Len(values)]

fmt_dbY == [order |-> "dbY", sep |-> " "]
fmt_Ymd == [order |-> "Ymd", sep |-> "-"]

\* one birthdate feature (featureTypeId 8): Date of Birth is the value;
\* DOB_DJ and DOB_YEAR from '%d %b %Y', else from '%Y-%m-%d', else only
\* DOB_YEAR from a four-digit year when there is one
BirthdateStep(acc, v) ==
    IF strptime(v, fmt_dbY) # NoDate
    THEN [dob |-> v, dj |-> strftime_dmY(strptime(v, fmt_dbY)),
          year |-> Decimal(strptime(v, fmt_dbY).y)]
    ELSE IF strptime(v, fmt_Ymd) # NoDate
    THEN [dob |-> v, dj |-> strftime_dmY(strptime(v, fmt_Ymd)),
          year |-> Decimal(strptime(v, fmt_Ymd).y)]
    ELSE IF year_match(v) # None
    THEN [dob |-> v, dj |-> acc.dj, year |-> year_match(v)]
    ELSE [dob |-> v, dj |-> acc.dj, year |-> acc.year]

RECURSIVE BirthdateFold(_, _)
BirthdateFold(values, acc) ==
    IF values = <<>> THEN acc
    ELSE BirthdateFold(Tail(values), BirthdateStep(acc, Head(values)))
Birthdate(features) ==
    BirthdateFold(FeatureValues(features, FT_birthdate),
                  [dob |-> <<>>, dj |-> <<>>, year |-> <<>>])

\* data['Gender']
GenderOf(features) ==
    LET v == LastOf(FeatureValues(features, FT_gender))
    IN  IF Lower(v) \in {S_male, S_female} THEN Lower(v) ELSE v

\* data['COUNTRY'] with the vessel flag used for every entity type
CountryOf_flag_any_type(type, vessel_flag, nationality, addresses) ==
    LET HasCountry(a) == Truthy(a.country)
        countries == SelectSeq(addresses, HasCountry)
    IN  IF vessel_flag # <<>> THEN vessel_flag
        ELSE IF nationality # <<>> THEN FirstOfSplit(nationality)
        ELSE IF countries # <<>> THEN countries[1].country
        ELSE <<>>

\* data['COUNTRY']: vessel flag, else first nationality, else first address
CountryOf(type, vessel_flag, nationality, addresses) ==
    LET HasCountry(a) == Truthy(a.country)
        countries == SelectSeq(addresses, HasCountry)
    IN  IF type = S_Vessel /\ vessel_flag # <<>> THEN vessel_flag
        ELSE IF nationality # <<>> THEN FirstOfSplit(nationality)
        ELSE IF countries # <<>> THEN countries[1].country
        ELSE <<>>

\* the identity documents taken from the end of the list
IdDocs_last_two(docs) ==
    LET Usable(doc) == doc.type # <<>> /\ Truthy(doc.documentNumber)
        sel == SelectSeq(docs, Usable)
    IN  IF Len(sel) <= 2 THEN sel ELSE SubSeq(sel, Len(sel) - 1, Len(sel))

\* the identity documents that have a type element and a non-empty number
IdDocs(docs) ==
    LET Usable(doc) == doc.type # <<>> /\ Truthy(doc.documentNumber)
    IN  SelectSeq(docs, Usable)

\* data['Date of listing'] from the first sanctionsList
DateOfListing(lists) ==
    IF lists = <<>> \/ ~Truthy(lists[1].datePublished) THEN <<>>
    ELSE LET dp == lists[1].datePublished
         IN  IF strptime(dp, fmt_Ymd) # NoDate
             THEN strftime_dmY(strptime(dp, fmt_Ymd)) ELSE dp

\* extract_entity_data below the action filter
ExtractAdded(entity) ==
    LET type == EntityTypeOf(entity)
        birth == Birthdate(entity.features)
        nats == FeatureValues(entity.features, FT_nationality)
        nationality == Join(nats, S_sep)
        vessel_flag == LastOf(FeatureValues(entity.features, FT_vessel_flag))
        ids == IdDocs(entity.identityDocuments)
    IN  [Name |-> PrimaryName(entity.names),
         Aliases |-> AliasesOf(entity.names),
         Type |-> type,
         Date_of_Birth |-> birth.dob,
         Place_of_Birth |-> LastOf(FeatureValues(entity.features, FT_place_of_birth)),
         Gender |-> GenderOf(entity.features),
         Nationality |-> nationality,
         COUNTRY |-> CountryOf(type, vessel_flag, nationality, entity.addresses),
         ID_1 |-> IF Len(ids) >= 1 THEN ids[1].documentNumber ELSE <<>>,
         ID_Type1 |-> IF Len(ids) >= 1 THEN get_document_type_name(ids[1].type[1]) ELSE <<>>,
         ID_2 |-> IF Len(ids) >= 2 THEN ids[2].documentNumber ELSE <<>>,
         ID_Type2 |-> IF Len(ids) >= 2 THEN get_document_type_name(ids[2].type[1]) ELSE <<>>,
         Date_of_listing |-> DateOfListing(entity.sanctionsLists),
         Watchlist |-> IF entity.sanctionsLists # <<>> THEN S_OFAC_label ELSE <<>>,
         Other_info |-> Join([j \in 1..Len(entity.sanctionsPrograms) |->
                              get_sanctions_program_name(entity.sanctionsPrograms[j])], S_sep),
         DOB_DJ |-> birth.dj,
         DOB_YEAR |-> birth.year]

\* extract_entity_data without the action filter
extract_entity_data_unfiltered(entity) == ExtractAdded(entity)

\* extract_entity_data(entity); entity.get('action', '') of an entity without
\* the attribute is ''
extract_entity_data(entity) ==
    LET action == IF entity.action = None THEN <<>> ELSE entity.action
    IN  IF action # S_add THEN BlankData ELSE ExtractAdded(entity)

NoDocument == [entity |-> <<>>, ns_entity |-> <<>>, entities |-> <<>>, ns_entities |-> <<>>]
\* pd.DataFrame()
EmptyDataFrame == [columns |-> {}, rows |-> <<>>]

\* process_sanctions_data: the four lookups for entity elements.  A container
\* is a sequence of length 0 (not found) or 1 (its entity children).
OfacFindEntities ==
    /\ ofac_pc = "start"
    /\ LET m1 == ofac_doc.entity
           m3 == IF ofac_doc.entities # <<>> THEN ofac_doc.entities[1] ELSE m1
           m4 == IF ofac_doc.ns_entities # <<>> /\ Len(ofac_doc.ns_entities[1]) > Len(m3)
                 THEN ofac_doc.ns_entities[1] ELSE m3
       IN  /\ entities' = m4
           /\ IF Len(m4) = 0
              THEN ofac_pc' = "done" /\ ofac_df' = EmptyDataFrame
              ELSE ofac_pc' = "loop" /\ UNCHANGED ofac_df
    /\ ofac_i' = 1
    /\ UNCHANGED <<ofac_doc, entity_data, extracted_data>>
    /\ UNCHANGED <<vars6, varsClean, varsEU, varsDate, varsUN, varsWF, varsGemini>>

\* the loop without the try/except around one entity: the exception leaves
\* process_sanctions_data
OfacExtractEntity_abort ==
    /\ ofac_pc = "loop" /\ ofac_i <= Len(entities)
    /\ IF entities[ofac_i].raises
       THEN ofac_pc' = "raised" /\ UNCHANGED <<entity_data, extracted_data>>
       ELSE /\ entity_data' = extract_entity_data(entities[ofac_i])
            /\ extracted_data' = IF entity_data'.Name # <<>>
                                 THEN Append(extracted_data, entity_data')
                                 ELSE extracted_data
            /\ UNCHANGED ofac_pc
    /\ ofac_i' = ofac_i + 1
    /\ UNCHANGED <<ofac_doc, entities, ofac_df>>
    /\ UNCHANGED <<vars6, varsClean, varsEU, varsDate, varsUN, varsWF, varsGemini>>

\* process_sanctions_data: one iteration of the loop over entities; an
\* exception of extract_entity_data is printed and the loop continues
OfacExtractEntity ==
    /\ ofac_pc = "loop" /\ ofac_i <= Len(entities)
    /\ IF entities[ofac_i].raises
       THEN UNCHANGED <<entity_data, extracted_data>>
       ELSE /\ entity_data' = extract_entity_data(entities[ofac_i])
            /\ extracted_data' = IF entity_data'.Name # <<>>
                                 THEN Append(extracted_data, entity_data')
                                 ELSE extracted_data
    /\ ofac_i' = ofac_i + 1
    /\ UNCHANGED <<ofac_doc, ofac_pc, entities, ofac_df>>
    /\ UNCHANGED <<vars6, varsClean, varsEU, varsDate, varsUN, varsWF, varsGemini>>

\* process_sanctions_data: the DataFrame of the extracted rows
OfacCreateDataFrame ==
    /\ ofac_pc = "loop" /\ ofac_i > Len(entities)
    /\ ofac_df' = [columns |-> OfacColumns, rows |-> extracted_data]
    /\ ofac_pc' = "done"
    /\ UNCHANGED <<ofac_doc, entities, ofac_i, entity_data, extracted_data>>
    /\ UNCHANGED <<vars6, varsClean, varsEU, varsDate, varsUN, varsWF, varsGemini>>

(***************************************************************************)
(* un_sanctions_parser.py: parse_un_sanctions_xml                          *)
(***************************************************************************)
S_Z_offset == <<"+","0","0",":","0","0">>
S_entities_ == <<"e","n","t","i","t","i","e","s","_">>

\* date_generated_str.replace('Z', '+00:00')
ReplaceZ(s) == Flatten([i \in 1..Len(s) |-> IF s[i] = "Z" THEN S_Z_offset ELSE <<s[i]>>])

TwoDigitsAt(s, i) == i + 1 <= Len(s) /\ IsDigit(s[i]) /\ IsDigit(s[i + 1])
NumAt(s, i) == NumOf(SubSeq(s, i, i + 1))

\* the UTC offset of an ISO time: [+-]HH:MM
IsoOffset(t) ==
    /\ Len(t) = 6 /\ t[1] \in {"+", "-"} /\ t[4] = ":"
    /\ TwoDigitsAt(t, 2) /\ TwoDigitsAt(t, 5)
    /\ NumAt(t, 2) <= 23 /\ NumAt(t, 5) <= 59
\* the time of an ISO timestamp: HH:MM:SS, an optional fraction of 3 or 6
\* digits and an optional offset
IsoTime(t) ==
    /\ Len(t) >= 8 /\ t[3] = ":" /\ t[6] = ":"
    /\ TwoDigitsAt(t, 1) /\ TwoDigitsAt(t, 4) /\ TwoDigitsAt(t, 7)
    /\ NumAt(t, 1) <= 23 /\ NumAt(t, 4) <= 59 /\ NumAt(t, 7) <= 59
    /\ LET rest == SubSeq(t, 9, Len(t))
           frac == IF rest # <<>> /\ rest[1] = "."
                   THEN Min({i \in 2..(Len(rest) + 1) : i > Len(rest) \/ ~IsDigit(rest[i])}) - 2
                   ELSE -1
           tz == IF frac = -1 THEN rest ELSE SubSeq(rest, frac + 2, Len(rest))
       IN  /\ frac \in {-1, 3, 6}
           /\ tz = <<>> \/ IsoOffset(tz)

\* datetime.fromisoformat(s).date(); NoDate when fromisoformat raises
fromisoformat_date(s) ==
    IF /\ Len(s) >= 10
       /\ AllDigits(SubSeq(s, 1, 4)) /\ s[5] = "-" /\ TwoDigitsAt(s, 6)
       /\ s[8] = "-" /\ TwoDigitsAt(s, 9)
       /\ (Len(s) = 10 \/ (Len(s) > 11 /\ IsoTime(SubSeq(s, 12, Len(s)))))
    THEN MkDate(NumOf(SubSeq(s, 1, 4)), NumAt(s, 6), NumAt(s, 9))
    ELSE NoDate

\* date - timedelta(days=2)
TwoDaysBefore(dt) ==
    LET p == IF dt.d > 1 THEN [dt EXCEPT !.d = dt.d - 1]
             ELSE IF dt.m > 1 THEN [y |-> dt.y, m |-> dt.m - 1, d |-> DaysInMonth(dt.y, dt.m - 1)]
             ELSE [y |-> dt.y - 1, m |-> 12, d |-> 31]
    IN  IF p.d > 1 THEN [p EXCEPT !.d = p.d - 1]
        ELSE IF p.m > 1 THEN [y |-> p.y, m |-> p.m - 1, d |-> DaysInMonth(p.y, p.m - 1)]
        ELSE [y |-> p.y - 1, m |-> 12, d |-> 31]

\* date - timedelta(days=1)
DayBefore(dt) ==
    IF dt.d > 1 THEN [dt EXCEPT !.d = dt.d - 1]
    ELSE IF dt.m > 1 THEN [y |-> dt.y, m |-> dt.m - 1, d |-> DaysInMonth(dt.y, dt.m - 1)]
    ELSE [y |-> dt.y - 1, m |-> 12, d |-> 31]

\* get_text(element)
get_text(t) == IF Truthy(t) THEN Strip(t) ELSE <<>>

\* extract_individual_data(individual); the sub-elements the record does not
\* have give empty columns
extract_individual_data(individual) ==
    LET parts == SelectSeq(<<get_text(individual.FIRST_NAME), get_text(individual.SECOND_NAME),
                             get_text(individual.THIRD_NAME), get_text(individual.FOURTH_NAME)>>,
                           Truthy)
    IN  [Type |-> S_Individual,
         Name |-> Join(parts, <<" ">>),
         Reference_Number |-> get_text(individual.REFERENCE_NUMBER),
         Listed_On |-> get_text(individual.LISTED_ON),
         Gender |-> get_text(individual.GENDER),
         Designations |-> <<>>, Nationalities |-> <<>>, Aliases |-> <<>>,
         Date_of_Birth |-> <<>>, Place_of_Birth |-> <<>>, Addresses |-> <<>>,
         Comments |-> get_text(individual.COMMENTS1),
         Source |-> S_UN_source]

\* extract_entity_data(entity) of un_sanctions_parser.py
un_extract_entity_data(entity) ==
    [Type |-> S_Entity,
     Name |-> get_text(entity.FIRST_NAME),
     Reference_Number |-> get_text(entity.REFERENCE_NUMBER),
     Listed_On |-> get_text(entity.LISTED_ON),
     Gender |-> <<>>,
     Designations |-> <<>>, Nationalities |-> <<>>, Aliases |-> <<>>,
     Date_of_Birth |-> <<>>, Place_of_Birth |-> <<>>, Addresses |-> <<>>,
     Comments |-> get_text(entity.COMMENTS1),
     Source |-> S_UN_source]
UnColumns == DOMAIN un_extract_entity_data([FIRST_NAME |-> None, REFERENCE_NUMBER |-> None,
                                            LISTED_ON |-> None, COMMENTS1 |-> None])

\* the dates a record is compared with, widened by one day
TargetDatesWide(date_generated) ==
    <<date_generated, DayBefore(date_generated), TwoDaysBefore(date_generated)>>

\* target_dates = [date_generated, date_generated - timedelta(days=1)]
TargetDates(date_generated) == <<date_generated, DayBefore(date_generated)>>

\* listed_on is not None and listed_on.text, strptime succeeds and
\* listed_date in target_dates
ListedInWindow(listed_on, dates) ==
    /\ Truthy(listed_on)
    /\ strptime(listed_on, fmt_Ymd) # NoDate
    /\ \E k \in 1..Len(dates) : dates[k] = strptime(listed_on, fmt_Ymd)

NoUnDocument == [dateGenerated |-> None, today |-> NoDate, INDIVIDUALS |-> <<>>, ENTITIES |-> <<>>]

\* the INDIVIDUAL elements of the INDIVIDUALS section, none when the section
\* is absent; the ENTITY elements likewise
UnIndividuals == IF un_doc.INDIVIDUALS = <<>> THEN <<>> ELSE un_doc.INDIVIDUALS[1]
UnEntities == IF un_doc.ENTITIES = <<>> THEN <<>> ELSE un_doc.ENTITIES[1]

\* parse_un_sanctions_xml: dateGenerated and target_dates.  A dateGenerated
\* that fromisoformat rejects raises into the function's except clause.
UnDateGenerated ==
    /\ un_pc = "start"
    /\ LET date_generated ==
               IF Truthy(un_doc.dateGenerated)
               THEN fromisoformat_date(ReplaceZ(un_doc.dateGenerated))
               ELSE un_doc.today
       IN  IF date_generated = NoDate
           THEN un_pc' = "error" /\ UNCHANGED target_dates
           ELSE un_pc' = "individuals" /\ target_dates' = TargetDates(date_generated)
    /\ un_i' = 1
    /\ UNCHANGED <<un_doc, individuals_data, entities_data, un_files>>
    /\ UNCHANGED <<vars6, varsClean, varsEU, varsDate, varsOFAC, varsWF, varsGemini>>

\* one INDIVIDUAL of the INDIVIDUALS section
UnIndividual ==
    /\ un_pc = "individuals"
    /\ un_i <= Len(UnIndividuals)
    /\ LET individual == UnIndividuals[un_i]
       IN  individuals_data' =
               IF ListedInWindow(individual.LISTED_ON, target_dates)
               THEN Append(individuals_data, extract_individual_data(individual))
               ELSE individuals_data
    /\ un_i' = un_i + 1
    /\ UNCHANGED <<un_doc, un_pc, target_dates, entities_data, un_files>>
    /\ UNCHANGED <<vars6, varsClean, varsEU, varsDate, varsOFAC, varsWF, varsGemini>>

\* the INDIVIDUALS section is absent or exhausted
UnIndividualsDone ==
    /\ un_pc = "individuals"
    /\ un_i > Len(UnIndividuals)
    /\ un_pc' = "entities" /\ un_i' = 1
    /\ UNCHANGED <<un_doc, target_dates, individuals_data, entities_data, un_files>>
    /\ UNCHANGED <<vars6, varsClean, varsEU, varsDate, varsOFAC, varsWF, varsGemini>>

\* one ENTITY of the ENTITIES section
UnEntity ==
    /\ un_pc = "entities"
    /\ un_i <= Len(UnEntities)
    /\ LET entity == UnEntities[un_i]
       IN  entities_data' =
               IF ListedInWindow(entity.LISTED_ON, target_dates)
               THEN Append(entities_data, un_extract_entity_data(entity))
               ELSE entities_data
    /\ un_i' = un_i + 1
    /\ UNCHANGED <<un_doc, un_pc, target_dates, individuals_data, un_files>>
    /\ UNCHANGED <<vars6, varsClean, varsEU, varsDate, varsOFAC, varsWF, varsGemini>>

\* the ENTITIES section is absent or exhausted: the CSV files are written
UnExport ==
    /\ un_pc = "entities"
    /\ un_i > Len(UnEntities)
    /\ un_files' =
         (IF individuals_data # <<>>
          THEN <<[name |-> S_sanctions_cleaned_ \o S_timestamp \o S_csv,
                  table |-> [columns |-> UnColumns, rows |-> individuals_data]]>>
          ELSE <<>>)
         \o (IF entities_data # <<>>
             THEN <<[name |-> S_sanctions_cleaned_ \o S_entities_ \o S_timestamp \o S_csv,
                     table |-> [columns |-> UnColumns, rows |-> entities_data]]>>
             ELSE <<>>)
    /\ un_pc' = "done"
    /\ UNCHANGED <<un_doc, un_i, target_dates, individuals_data, entities_data>>
    /\ UNCHANGED <<vars6, varsClean, varsEU, varsDate, varsOFAC, varsWF, varsGemini>>

(***************************************************************************)
(* main.py: step6_consolidate_data                                         *)
(***************************************************************************)
\* A table (DataFrame) is [columns, rows]; a row holds the modelled columns,
\* with NaN for a missing cell.  A file whose table has no column at all is one
\* pd.read_csv raises on.
Unreadable == [columns |-> {}, rows |-> <<>>]

MkRow(name, watchlist, source, dob) ==
    [Name |-> name, Watchlist |-> watchlist, Source |-> source, DOB_DJ |-> dob]

ColumnsOf(rows) ==
    {"Name"}
    \cup (IF \E i \in 1..Len(rows) : rows[i].Watchlist # NaN THEN {"Watchlist"} ELSE {})
    \cup (IF \E i \in 1..Len(rows) : rows[i].Source # NaN THEN {"Source"} ELSE {})
    \cup (IF \E i \in 1..Len(rows) : rows[i].DOB_DJ # NaN THEN {"DOB_DJ"} ELSE {})

MkTable(rows) == [columns |-> ColumnsOf(rows), rows |-> rows]

\* pd.concat(all_dataframes, ignore_index=True)
RECURSIVE ConcatRows(_)
ConcatRows(dfs) == IF dfs = <<>> THEN <<>> ELSE Head(dfs).rows \o ConcatRows(Tail(dfs))
concat(dfs) ==
    [columns |-> UNION {dfs[i].columns : i \in 1..Len(dfs)}, rows |-> ConcatRows(dfs)]

\* final_df.drop_duplicates(subset=['Name'], keep='first')
RECURSIVE SelectIdx(_, _, _)
SelectIdx(rows, keep, i) ==
    IF i > Len(rows) THEN <<>>
    ELSE (IF i \in keep THEN <<rows[i]>> ELSE <<>>) \o SelectIdx(rows, keep, i + 1)

\* drop_duplicates(subset=['Name'], keep='last')
drop_duplicates_last(df) ==
    LET keep == {i \in 1..Len(df.rows) :
                    \A j \in (i + 1)..Len(df.rows) : df.rows[j].Name # df.rows[i].Name}
    IN  [df EXCEPT !.rows = SelectIdx(df.rows, keep, 1)]

drop_duplicates(df) ==
    LET keep == {i \in 1..Len(df.rows) :
                    \A j \in 1..(i - 1) : df.rows[j].Name # df.rows[i].Name}
    IN  [df EXCEPT !.rows = SelectIdx(df.rows, keep, 1)]

\* the order of sort_values('Name'): strings ascending, NaN last
NameLeq(a, b) ==
    IF b = NaN THEN TRUE
    ELSE IF a = NaN THEN FALSE
    ELSE a = b \/ StrLess(a, b)

RECURSIVE InsertByName(_, _)
InsertByName(r, sorted) ==
    IF sorted = <<>> THEN <<r>>
    ELSE IF NameLeq(r.Name, Head(sorted).Name) THEN <<r>> \o sorted
    ELSE <<Head(sorted)>> \o InsertByName(r, Tail(sorted))

RECURSIVE SortRows(_)
SortRows(rows) ==
    IF rows = <<>> THEN <<>>
    ELSE InsertByName(rows[Len(rows)], SortRows(SubSeq(rows, 1, Len(rows) - 1)))

\* the table left in the order of the concatenation
sort_values_unsorted(df) == df

\* final_df.sort_values('Name').reset_index(drop=True)
sort_values(df) == [df EXCEPT !.rows = SortRows(df.rows)]

\* the category step6 counts a file's rows under (lines 692-699)
FileCategory(file) ==
    IF Contains(file, S_sanctions_from_) THEN "pdf_records"
    ELSE IF Contains(Lower(file), K_ofac) THEN "ofac_records"
    ELSE IF Contains(Lower(file), K_un) THEN "un_records"
    ELSE "other_records"

\* the distinct values instead of their counts
value_counts_distinct(rows) ==
    [w \in {rows[i].Watchlist : i \in 1..Len(rows)} \ {NaN} |-> 1]
\* dict(final_df['Watchlist'].value_counts())
value_counts(rows) ==
    LET vals == {rows[i].Watchlist : i \in 1..Len(rows)} \ {NaN}
    IN  [w \in vals |-> Cardinality({i \in 1..Len(rows) : rows[i].Watchlist = w})]

NoSummary == [set |-> FALSE]
ZeroSummary == [pdf_records |-> 0, ofac_records |-> 0, un_records |-> 0, other_records |-> 0]

\* lines 711-735: concat, DOB_DJ, Watchlist, drop_duplicates, sort
Consolidated(dfs) ==
    sort_values(drop_duplicates(standardize_watchlist(standardize_dob_format(concat(dfs)))))

\* lines 645-651
Step6Glob ==
    /\ pc = "start"
    /\ IF files = <<>>
       THEN pc' = "failed"
       ELSE pc' = "loop"
    /\ idx' = 1
    /\ all_dataframes' = <<>>
    /\ total_records' = 0
    /\ processing_summary' = ZeroSummary
    /\ UNCHANGED <<files, final_df, final_summary, varsClean, varsEU, varsDate, varsOFAC, varsUN, varsWF, varsGemini>>

\* lines 682-705: one iteration of "for file in all_csv_files"
Step6ReadFile ==
    /\ pc = "loop"
    /\ idx <= Len(files)
    /\ LET file == files[idx].name
           df == files[idx].df
       IN  IF df = Unreadable
           THEN UNCHANGED <<all_dataframes, total_records, processing_summary>>
           ELSE IF Len(df.rows) > 0
           THEN /\ all_dataframes' = Append(all_dataframes, update_watchlist_column(df, file))
                /\ total_records' = total_records + Len(df.rows)
                /\ processing_summary' =
                     [processing_summary EXCEPT ![FileCategory(file)] = @ + Len(df.rows)]
           ELSE UNCHANGED <<all_dataframes, total_records, processing_summary>>
    /\ idx' = idx + 1
    /\ UNCHANGED <<files, pc, final_df, final_summary, varsClean, varsEU, varsDate, varsOFAC, varsUN, varsWF, varsGemini>>

\* lines 707-771 (type_distribution is left out: the rows carry no Type)
Step6Merge ==
    /\ pc = "loop"
    /\ idx > Len(files)
    /\ IF all_dataframes = <<>> \/ "Name" \notin concat(all_dataframes).columns
       THEN /\ pc' = "failed"
            /\ UNCHANGED <<final_df, final_summary>>
       ELSE LET out == Consolidated(all_dataframes)
            IN  /\ final_df' = out
                /\ final_summary' =
                     [set |-> TRUE,
                      total_records |-> Len(out.rows),
                      duplicate_removed |-> Len(ConcatRows(all_dataframes)) - Len(out.rows),
                      processing_breakdown |-> processing_summary,
                      watchlist_distribution |-> value_counts(out.rows)]
                /\ pc' = "done"
    /\ UNCHANGED <<files, idx, all_dataframes, total_records, processing_summary,
                   varsClean, varsEU, varsDate, varsOFAC, varsUN, varsWF, varsGemini>>

(***************************************************************************)
(* The source tables of a consolidation                                    *)
(***************************************************************************)
S_A == <<"A">>
S_B == <<"B">>
S_HMT == <<"H","M","T">>
S_dob_numeric == <<"1","2","/","1","0","/","1","9","5","8">>
S_circa_1958 == <<"c","i","r","c","a"," ","1","9","5","8">>
S_202501578 == <<"2","0","2","5","0","1","5","7","8">>
S_report == <<"r","e","p","o","r","t">>

\* OFACSanctionsExtractor.save_to_csv, parse_un_sanctions_xml, step3
F_ofac == S_sanctions_cleaned_ \o S_today \o S_csv
F_un == S_sanctions_cleaned_ \o S_timestamp \o S_csv
F_pdf == S_sanctions_from_ \o S_202501578 \o <<"_">> \o S_timestamp \o S_csv
F_report == S_sanctions_from_ \o S_report \o <<"_">> \o S_timestamp \o S_csv
\* glob("sanctions_cleaned_*.csv") + glob("sanctions_from_*.csv"): distinct
\* names, the sanctions_cleaned_ ones first, each group in directory order
FileLists(fileNames) ==
    {fl \in UNION {[1..n -> fileNames] : n \in 0..Cardinality(fileNames)} :
        /\ \A i, j \in 1..Len(fl) : i # j => fl[i] # fl[j]
        /\ \A i, j \in 1..Len(fl) :
             (i < j /\ Contains(fl[i], S_sanctions_from_))
                => Contains(fl[j], S_sanctions_from_)}

RECURSIVE SumTo(_, _)
SumTo(f, n) == IF n = 0 THEN 0 ELSE SumTo(f, n - 1) + (IF f[n] > 0 THEN f[n] ELSE 0)

\* The files on disk: a list of names and, per file, its table.
\* counts[i]: -1 an unreadable file, 0 a header-only file, else its row count;
\* rowsOf[n] is the set of the n-row sequences the rows are drawn from.
InitFilesFrom(fileNames, rowsOf) ==
    \E fl \in FileLists(fileNames) :
      \E counts \in [1..Len(fl) -> -1..MaxRows] :
        /\ SumTo(counts, Len(fl)) <= MaxRows
        /\ \E flat \in rowsOf[SumTo(counts, Len(fl))] :
             files = [i \in 1..Len(fl) |->
                        [name |-> fl[i],
                         df |-> IF counts[i] < 0 THEN Unreadable
                                ELSE MkTable(SubSeq(flat, SumTo(counts, i - 1) + 1,
                                                    SumTo(counts, i)))]]

\* Source tables for deduplication: rows named A or B, from the OFAC table and
\* one document-derived table.
Names == {S_A, S_B}
\* (Watchlist, Source, DOB_DJ) of a source row
Profiles ==
    { <<NaN, NaN, NaN>>,
      <<S_OFAC_label, NaN, S_dob_numeric>>,
      <<NaN, S_UN_source, NaN>>,
      <<S_HMT, NaN, S_circa_1958>> }
RowDomain == {MkRow(n, p[1], p[2], p[3]) : n \in Names, p \in Profiles}
DedupRows == [n \in 0..MaxRows |-> [1..n -> RowDomain]]
DedupFileNames == {F_ofac, F_pdf}

\* Source tables for Watchlist resolution: rows with distinct names (no row is
\* dropped as a duplicate), from a sanctions_cleaned_ table and two
\* document-derived tables.
S_UN_list == <<"U","N"," ","l","i","s","t">>
S_pad_EU_regs == <<" ","E","U"," ","r","e","g","s">>
\* (Watchlist, Source) of a source row
WatchProfiles ==
    { <<NaN, NaN>>,
      <<S_OFAC_label, NaN>>,
      <<NaN, S_UN_source>>,
      <<S_HMT, NaN>>,
      <<S_pad_EU_regs, S_UN_source>> }
RowName(k) == <<UpperAlpha[k]>>
WatchRows ==
    [n \in 0..MaxRows |->
       {[k \in 1..n |-> MkRow(RowName(k), p[k][1], p[k][2], NaN)] : p \in [1..n -> WatchProfiles]}]
WatchFileNames == {F_un, F_pdf, F_report}

Step6Start ==
    /\ pc = "start" /\ idx = 0 /\ all_dataframes = <<>>
    /\ total_records = 0 /\ processing_summary = ZeroSummary
    /\ final_df = Unreadable /\ final_summary = NoSummary

IdleStep6 ==
    /\ files = <<>> /\ pc = "idle" /\ idx = 0 /\ all_dataframes = <<>>
    /\ total_records = 0 /\ processing_summary = ZeroSummary
    /\ final_df = Unreadable /\ final_summary = NoSummary
IdleClean == value = None /\ once = None /\ twice = None
IdleEU == pdf_number = None /\ eu_result = None
IdleDate == date_str = None /\ dob_result = None
IdleOFAC ==
    /\ ofac_doc = NoDocument /\ ofac_pc = "idle" /\ entities = <<>> /\ ofac_i = 0
    /\ entity_data = BlankData /\ extracted_data = <<>> /\ ofac_df = EmptyDataFrame
IdleUN ==
    /\ un_doc = NoUnDocument /\ un_pc = "idle" /\ un_i = 0 /\ target_dates = <<>>
    /\ individuals_data = <<>> /\ entities_data = <<>> /\ un_files = <<>>

NoResult == [success |-> FALSE, error |-> "not called"]
\* no response text: the API call raised
NoResponse == [open |-> <<>>, block |-> None, close |-> <<>>]
IdleGemini ==
    csv_parts = NoResponse /\ save_ok = TRUE /\ gemini_result = NoResult /\ gemini_warned = FALSE

IdleWF ==
    /\ pdf_files = <<>> /\ gemini_api_key = FALSE
    /\ ofac_source = "idle" /\ un_source = "idle"
    /\ wf_pc = "idle" /\ wf_step = 0 /\ wf_i = 0 /\ results = <<>>
    /\ successful_conversions = 0 /\ conversion_results = <<>> /\ base64_results = <<>>
    /\ disk = <<>> /\ success_steps = 0 /\ wf_result = "idle" /\ run_no = 0

Init ==
    /\ InitFilesFrom(DedupFileNames, DedupRows) /\ Step6Start
    /\ IdleClean /\ IdleEU /\ IdleDate /\ IdleOFAC /\ IdleUN /\ IdleWF /\ IdleGemini
InitWatch ==
    /\ InitFilesFrom(WatchFileNames, WatchRows) /\ Step6Start
    /\ IdleClean /\ IdleEU /\ IdleDate /\ IdleOFAC /\ IdleUN /\ IdleWF /\ IdleGemini

Next == Step6Glob \/ Step6ReadFile \/ Step6Merge

\* step6_consolidate_data over tables that share names
Spec == Init /\ [][Next]_vars
\* step6_consolidate_data over tables of varied provenance
SpecWatch == InitWatch /\ [][Next]_vars

\* Source tables for sorting and the Name requirement: rows whose names differ
\* in case, length and order, or are missing (an empty Name cell)
S_a == <<"a">>
S_AB == <<"A","B">>
SortNames == {S_A, S_B, S_a, S_AB, NaN}
NameRows == [n \in 0..MaxRows |-> [1..n -> {MkRow(nm, NaN, NaN, NaN) : nm \in SortNames}]]
InitNames ==
    /\ InitFilesFrom(DedupFileNames, NameRows) /\ Step6Start
    /\ IdleClean /\ IdleEU /\ IdleDate /\ IdleOFAC /\ IdleUN /\ IdleWF /\ IdleGemini
\* step6_consolidate_data over tables with varied and missing names
SpecNames == InitNames /\ [][Next]_vars

\* Source tables as the three producers write them: the OFAC table, the two
\* UN tables and one document-derived table, each with its own header.
F_un_entities == S_sanctions_cleaned_ \o S_entities_ \o S_timestamp \o S_csv
\* the header the OFAC table has for a key of the data dictionary
CsvName(field) ==
    IF field = "Date_of_Birth" THEN "Date of Birth"
    ELSE IF field = "Place_of_Birth" THEN "Place of Birth"
    ELSE IF field = "Date_of_listing" THEN "Date of listing"
    ELSE IF field = "Other_info" THEN "Other info"
    ELSE field
OfacCsvColumns == {CsvName(f) : f \in OfacColumns}
\* the header expected of a document-derived table
expected_headers ==
    {"Name", "Aliases", "Type", "Date of Birth", "Place of Birth", "Gender",
     "Nationality", "COUNTRY", "ID_1", "ID_Type1", "ID_2", "ID_Type2",
     "Date of listing", "Watchlist", "Other info", "DOB_DJ", "DOB_YEAR"}
SourceFileNames == {F_ofac, F_un, F_un_entities, F_pdf}
UnFileNames == {F_un, F_un_entities}
\* the table a producer writes for the given names, as pd.read_csv returns it
SourceTable(file, names) ==
    IF file = F_ofac
    THEN [columns |-> OfacCsvColumns,
          rows |-> [k \in 1..Len(names) |-> MkRow(names[k], S_OFAC_label, NaN, NaN)]]
    ELSE IF file \in UnFileNames
    THEN [columns |-> UnColumns,
          rows |-> [k \in 1..Len(names) |-> MkRow(names[k], NaN, S_UN_source, NaN)]]
    ELSE [columns |-> expected_headers,
          rows |-> [k \in 1..Len(names) |-> MkRow(names[k], NaN, NaN, S_dob_numeric)]]
InitSources ==
    /\ \E fl \in FileLists(SourceFileNames) :
         \E counts \in [1..Len(fl) -> 1..MaxRows] :
           /\ SumTo(counts, Len(fl)) <= MaxRows
           /\ \E flat \in [1..SumTo(counts, Len(fl)) -> Names] :
                files = [i \in 1..Len(fl) |->
                           [name |-> fl[i],
                            df |-> SourceTable(fl[i], SubSeq(flat, SumTo(counts, i - 1) + 1,
                                                             SumTo(counts, i)))]]
    /\ Step6Start
    /\ IdleClean /\ IdleEU /\ IdleDate /\ IdleOFAC /\ IdleUN /\ IdleWF /\ IdleGemini
\* step6_consolidate_data over the tables of the OFAC, UN and document stages
SpecSources == InitSources /\ [][Next]_vars

(***************************************************************************)
(* clean_watchlist_value applied once and twice to one value               *)
(***************************************************************************)
S_2025_1578 == <<"2","0","2","5","/","1","5","7","8">>
S_Interpol == <<"I","n","t","e","r","p","o","l">>
S_Treasury_SDN == <<"T","r","e","a","s","u","r","y"," ","S","D","N">>
S_Reg_2025_1578 == <<"R","e","g"," ","2","0","2","5","/","1","5","7","8">>

WatchlistAlphabet == {"u", "N", "e", " ", "2", "/"}
WatchlistTexts ==
    UNION {[1..n -> WatchlistAlphabet] : n \in 0..MaxLen}
    \cup {NaN, S_OFAC_label, S_UN_source, S_UN_list, S_2025_1578, S_Reg_2025_1578,
          S_EU, S_pad_EU_regs, S_Unknown, S_UN, S_OFAC, S_HMT, S_Interpol,
          S_Treasury_SDN}

InitClean ==
    /\ value \in WatchlistTexts /\ once = None /\ twice = None
    /\ IdleStep6 /\ IdleEU /\ IdleDate /\ IdleOFAC /\ IdleUN /\ IdleWF /\ IdleGemini

\* df['Watchlist'].apply(clean_watchlist_value)
CleanOnce ==
    /\ value # None /\ once = None
    /\ once' = clean_watchlist_value(value)
    /\ UNCHANGED <<value, twice, vars6, varsEU, varsDate, varsOFAC, varsUN, varsWF, varsGemini>>

\* a second canonicalization pass over the result of the first
CleanTwice ==
    /\ once # None /\ twice = None
    /\ twice' = clean_watchlist_value(once)
    /\ UNCHANGED <<value, once, vars6, varsEU, varsDate, varsOFAC, varsUN, varsWF, varsGemini>>

NextClean == CleanOnce \/ CleanTwice
SpecClean == InitClean /\ [][NextClean]_vars

(***************************************************************************)
(* extract_eu_watchlist_from_number applied to one PDF number              *)
(***************************************************************************)
S_2025000 == <<"2","0","2","5","0","0","0">>
S_20250000 == <<"2","0","2","5","0","0","0","0">>

PdfDigits == {"0", "2"}
PdfNumbers ==
    UNION {[1..n -> PdfDigits] : n \in 0..MaxDigits}
    \cup {S_202501578, S_2025000, S_20250000}

InitEU ==
    /\ pdf_number \in PdfNumbers /\ eu_result = None
    /\ IdleStep6 /\ IdleClean /\ IdleDate /\ IdleOFAC /\ IdleUN /\ IdleWF /\ IdleGemini

\* watchlist_value = self.extract_eu_watchlist_from_number(pdf_number)
ApplyEU ==
    /\ pdf_number # None /\ eu_result = None
    /\ eu_result' = extract_eu_watchlist_from_number(pdf_number)
    /\ UNCHANGED <<pdf_number, vars6, varsClean, varsDate, varsOFAC, varsUN, varsWF, varsGemini>>

NextEU == ApplyEU
SpecEU == InitEU /\ [][NextEU]_vars

(***************************************************************************)
(* convert_date_format applied to one DOB_DJ cell                          *)
(***************************************************************************)
S_12_Oct_1958 == <<"1","2"," ","O","c","t"," ","1","9","5","8">>
S_2_oct_1958 == <<"2"," ","o","c","t"," ","1","9","5","8">>
S_12_Oct_1958_approx == <<"1","2"," ","O","c","t"," ","1","9","5","8"," ","(","a","p","p","r","o","x",")">>
S_12_October_1958 == <<"1","2"," ","O","c","t","o","b","e","r"," ","1","9","5","8">>
S_1958 == <<"1","9","5","8">>
S_12_10_58 == <<"1","2","/","1","0","/","5","8">>
S_iso_1958_10_12 == <<"1","9","5","8","-","1","0","-","1","2">>
S_mixed_seps == <<"1","2","/","1","0","-","1","9","5","8">>
S_two_blanks == <<"1","2"," "," ","1","0"," ","1","9","5","8">>
S_blank_day == <<"1","9","5","8","-","1","0","-"," ","5">>
S_slash_blank_day == <<"1","0","/"," ","5","/","1","9","5","8">>
S_three_digit_day == <<"1","2","3","/","1","0","/","1","9","5","8">>
S_trailing_text == <<"1","2","/","1","0","/","1","9","5","8","x">>

\* day and month fields, years, separators and white-space padding of the
\* generated cells
DayMonthTexts == {<<"1","2">>, <<"1","0">>, <<"5">>, <<"1","3">>, <<"2","9">>,
                  <<"0","2">>, <<"3","1">>}
YearTexts == {<<"1","9","5","8">>, <<"2","0","0","0">>}
Separators == {"/", "-", ".", " "}
Paddings == {<<>>, <<" ">>}
DateTexts ==
    {pad \o a \o <<sp>> \o b \o <<sp>> \o y \o pad :
        a \in DayMonthTexts, b \in DayMonthTexts, y \in YearTexts,
        sp \in Separators, pad \in Paddings}
    \cup {pad \o y \o <<sp>> \o a \o <<sp>> \o b \o pad :
        a \in DayMonthTexts, b \in DayMonthTexts, y \in YearTexts,
        sp \in Separators, pad \in Paddings}
    \cup {pad \o t \o pad :
        t \in {S_12_Oct_1958, S_2_oct_1958, S_12_Oct_1958_approx, S_12_October_1958,
               S_circa_1958, S_1958, S_12_10_58, S_mixed_seps, S_two_blanks,
               S_blank_day, S_slash_blank_day, S_three_digit_day, S_trailing_text},
        pad \in Paddings}
    \cup {NaN, <<>>, <<" ">>}

InitDate ==
    /\ date_str \in DateTexts /\ dob_result = None
    /\ IdleStep6 /\ IdleClean /\ IdleEU /\ IdleOFAC /\ IdleUN /\ IdleWF /\ IdleGemini

\* df['DOB_DJ'].apply(convert_date_format)
ApplyDate ==
    /\ date_str # None /\ dob_result = None
    /\ dob_result' = convert_date_format(date_str)
    /\ UNCHANGED <<date_str, vars6, varsClean, varsEU, varsOFAC, varsUN, varsWF, varsGemini>>

NextDate == ApplyDate
SpecDate == InitDate /\ [][NextDate]_vars

(***************************************************************************)
(* process_sanctions_data over the entities of one OFAC document           *)
(***************************************************************************)
MaxEntities == 2      \* entity elements of one OFAC document

\* the birthdate features of one entity, in document order
BirthdateLists ==
    {<<>>, <<S_12_Oct_1958>>, <<S_iso_1958_10_12>>, <<S_circa_1958>>, <<S_unknown>>,
     <<S_dob_numeric>>, <<S_12_Oct_1958, S_unknown>>, <<S_iso_1958_10_12, S_circa_1957>>}

\* the k-th entity element of a document: an action attribute (None when the
\* attribute is absent), whether extract_entity_data raises on the element, a
\* primary name or none, an alias, birthdate
\* features, a nationality, an address, a passport, a sanctions list and a
\* programme
OfacEntity(k, action, named, births) ==
    [action |-> action,
     raises |-> FALSE,
     entityType |-> <<S_600>>,
     names |-> (IF named THEN <<[isPrimary |-> S_true, translations |-> <<RowName(k)>>]>>
                ELSE <<>>)
               \o <<[isPrimary |-> S_false, translations |-> <<S_HMT>>]>>,
     features |-> [j \in 1..Len(births) |-> [type |-> <<FT_birthdate>>, value |-> births[j]]]
                  \o <<[type |-> <<FT_nationality>>, value |-> S_Liberia]>>,
     addresses |-> <<[country |-> S_Panama]>>,
     identityDocuments |-> <<[type |-> <<S_1571>>, documentNumber |-> S_P123]>>,
     sanctionsLists |-> <<[datePublished |-> S_published]>>,
     sanctionsPrograms |-> <<S_1550>>]

OfacProfiles ==
    ({S_add} \X {TRUE} \X BirthdateLists)
    \cup ({S_add} \X {FALSE} \X {<<>>})
    \cup ({S_modify, S_delete, None} \X {TRUE} \X {<<>>, <<S_12_Oct_1958>>, <<S_circa_1958>>})

\* a namespaced document: an entities container when has_container, holding
\* the entity elements
InitOFAC ==
    /\ \E n \in 0..MaxEntities : \E p \in [1..n -> OfacProfiles] : \E has_container \in BOOLEAN :
         LET list == [k \in 1..n |-> OfacEntity(k, p[k][1], p[k][2], p[k][3])]
         IN  ofac_doc = [entity |-> <<>>, ns_entity |-> list, entities |-> <<>>,
                         ns_entities |-> IF has_container THEN <<list>> ELSE <<>>]
    /\ ofac_pc = "start" /\ entities = <<>> /\ ofac_i = 0
    /\ entity_data = BlankData /\ extracted_data = <<>> /\ ofac_df = EmptyDataFrame
    /\ IdleStep6 /\ IdleClean /\ IdleEU /\ IdleDate /\ IdleUN /\ IdleWF /\ IdleGemini

NextOFAC == OfacFindEntities \/ OfacExtractEntity \/ OfacCreateDataFrame
SpecOFAC == InitOFAC /\ [][NextOFAC]_vars

(***************************************************************************)
(* parse_un_sanctions_xml over one UN document                             *)
(***************************************************************************)
MaxUnRecords == 2     \* INDIVIDUAL and ENTITY elements of one UN document

S_gen_0730 == <<"2","0","2","5","-","0","7","-","3","0","T","2","3",":","0","0",":","0","5",".","3","3","3","Z">>
S_gen_0301 == <<"2","0","2","5","-","0","3","-","0","1","T","0","0",":","0","0",":","0","0","Z">>
S_gen_leap == <<"2","0","2","4","-","0","3","-","0","1","T","0","6",":","0","0",":","0","0","Z">>
S_gen_bad == <<"3","0","/","0","7","/","2","0","2","5">>
S_2025_07_30 == <<"2","0","2","5","-","0","7","-","3","0">>
S_2025_07_29 == <<"2","0","2","5","-","0","7","-","2","9">>
S_2025_07_28 == <<"2","0","2","5","-","0","7","-","2","8">>
S_2025_07_31 == <<"2","0","2","5","-","0","7","-","3","1">>
S_2025_02_28 == <<"2","0","2","5","-","0","2","-","2","8">>
S_2024_02_29 == <<"2","0","2","4","-","0","2","-","2","9">>
S_2025_7_30 == <<"2","0","2","5","-","7","-","3","0">>
S_30_07_2025 == <<"3","0","/","0","7","/","2","0","2","5">>
S_2025_07_30_blank == <<"2","0","2","5","-","0","7","-","3","0"," ">>
S_QDi == <<"Q","D","i",".">>
S_QDe == <<"Q","D","e",".">>

DateGeneratedTexts == {S_gen_0730, S_gen_0301, S_gen_leap, S_gen_bad, None}
\* LISTED_ON: no element (None), an empty element, or a text
ListedOnTexts ==
    {None, <<>>, S_2025_07_30, S_2025_07_29, S_2025_07_28, S_2025_07_31, S_2025_02_28,
     S_2024_02_29, S_2025_7_30, S_30_07_2025, S_2025_07_30_blank}

UnIndividualRef(k) == S_QDi \o <<DigitChar(k)>>
UnEntityRef(k) == S_QDe \o <<DigitChar(k)>>
UnIndividualRecord(k, listed_on) ==
    [FIRST_NAME |-> RowName(k), SECOND_NAME |-> S_B, THIRD_NAME |-> None,
     FOURTH_NAME |-> None, REFERENCE_NUMBER |-> UnIndividualRef(k),
     LISTED_ON |-> listed_on, GENDER |-> S_Male, COMMENTS1 |-> None]
UnEntityRecord(k, listed_on) ==
    [FIRST_NAME |-> RowName(k), REFERENCE_NUMBER |-> UnEntityRef(k),
     LISTED_ON |-> listed_on, COMMENTS1 |-> None]

\* a section: absent (<<>>) or present with its records
UnSections(n) ==
    {<<>>} \cup {<<[k \in 1..m |-> l[k]]>> : l \in [1..n -> ListedOnTexts], m \in {n}}

InitUN ==
    /\ \E g \in DateGeneratedTexts : \E ni \in 0..MaxUnRecords : \E ne \in 0..(MaxUnRecords - ni) :
         \E si \in UnSections(ni) : \E se \in UnSections(ne) :
           un_doc = [dateGenerated |-> g,
                     today |-> [y |-> 2025, m |-> 7, d |-> 30],
                     INDIVIDUALS |-> IF si = <<>> THEN <<>>
                                     ELSE <<[k \in 1..ni |-> UnIndividualRecord(k, si[1][k])]>>,
                     ENTITIES |-> IF se = <<>> THEN <<>>
                                  ELSE <<[k \in 1..ne |-> UnEntityRecord(k, se[1][k])]>>]
    /\ un_pc = "start" /\ un_i = 0 /\ target_dates = <<>>
    /\ individuals_data = <<>> /\ entities_data = <<>> /\ un_files = <<>>
    /\ IdleStep6 /\ IdleClean /\ IdleEU /\ IdleDate /\ IdleOFAC /\ IdleWF /\ IdleGemini

NextUN == UnDateGenerated \/ UnIndividual \/ UnIndividualsDone \/ UnEntity \/ UnExport
SpecUN == InitUN /\ [][NextUN]_vars

(***************************************************************************)
(* process_sanctions_data over one added entity: identity documents        *)
(***************************************************************************)
MaxDocs == 5          \* identityDocument elements of one entity

S_9999 == <<"9","9","9","9">>
S_Iran == <<"I","r","a","n">>
S_Cuba == <<"C","u","b","a">>
S_Liberia_Cuba == <<"L","i","b","e","r","i","a",";","C","u","b","a">>
S_Doc_Type_9999 == <<"D","o","c"," ","T","y","p","e"," ","9","9","9","9">>
S_Passport == <<"P","a","s","s","p","o","r","t">>

\* one added, named entity with the given type, features, addresses and
\* identity documents
OfacAddedEntity(type, features, addresses, documents) ==
    [action |-> S_add,
     raises |-> FALSE,
     entityType |-> type,
     names |-> <<[isPrimary |-> S_true, translations |-> <<S_A>>]>>,
     features |-> features,
     addresses |-> addresses,
     identityDocuments |-> documents,
     sanctionsLists |-> <<[datePublished |-> S_published]>>,
     sanctionsPrograms |-> <<S_1550>>]

OfacDocumentOf(entity) ==
    [entity |-> <<>>, ns_entity |-> <<entity>>, entities |-> <<>>, ns_entities |-> <<<<entity>>>>]

OfacStart ==
    /\ ofac_pc = "start" /\ entities = <<>> /\ ofac_i = 0
    /\ entity_data = BlankData /\ extracted_data = <<>> /\ ofac_df = EmptyDataFrame

\* the k-th identityDocument: a passport, a document of an unmapped type, one
\* without a type element, one with an empty number, one without a number
DocNumber(k) == <<"P", DigitChar(k)>>
DocProfiles(k) ==
    <<[type |-> <<S_1571>>, documentNumber |-> DocNumber(k)],
      [type |-> <<S_9999>>, documentNumber |-> DocNumber(k)],
      [type |-> <<>>, documentNumber |-> DocNumber(k)],
      [type |-> <<S_1571>>, documentNumber |-> <<>>],
      [type |-> <<S_9999>>, documentNumber |-> None]>>

InitOFACIds ==
    /\ \E n \in 0..MaxDocs : \E p \in [1..n -> 1..Len(DocProfiles(1))] :
         ofac_doc = OfacDocumentOf(OfacAddedEntity(<<S_600>>, <<>>, <<>>,
                                                   [k \in 1..n |-> DocProfiles(k)[p[k]]]))
    /\ OfacStart
    /\ IdleStep6 /\ IdleClean /\ IdleEU /\ IdleDate /\ IdleUN /\ IdleWF /\ IdleGemini

SpecOFACIds == InitOFACIds /\ [][NextOFAC]_vars

(***************************************************************************)
(* process_sanctions_data over one added entity: COUNTRY                   *)
(***************************************************************************)
TypeRefs == {<<>>, <<S_600>>, <<S_601>>, <<S_602>>}
\* the vessel-flag features: none, one with a value, one without a value
FlagFeatures ==
    {<<>>, <<[type |-> <<FT_vessel_flag>>, value |-> S_Panama]>>,
     <<[type |-> <<FT_vessel_flag>>, value |-> None]>>}
NationalityFeatures ==
    {<<>>, <<[type |-> <<FT_nationality>>, value |-> S_Liberia]>>,
     <<[type |-> <<FT_nationality>>, value |-> S_Liberia_Cuba]>>,
     <<[type |-> <<FT_nationality>>, value |-> S_Iran],
       [type |-> <<FT_nationality>>, value |-> S_Liberia]>>}
AddressLists ==
    {<<>>, <<[country |-> S_Cuba]>>, <<[country |-> None], [country |-> S_Iran]>>,
     <<[country |-> S_Cuba], [country |-> S_Iran]>>}

InitOFACCountry ==
    /\ \E type \in TypeRefs : \E flags \in FlagFeatures : \E nats \in NationalityFeatures :
         \E addresses \in AddressLists : \E flag_first \in BOOLEAN :
           ofac_doc = OfacDocumentOf(OfacAddedEntity(type,
                         IF flag_first THEN flags \o nats ELSE nats \o flags, addresses, <<>>))
    /\ OfacStart
    /\ IdleStep6 /\ IdleClean /\ IdleEU /\ IdleDate /\ IdleUN /\ IdleWF /\ IdleGemini

SpecOFACCountry == InitOFACCountry /\ [][NextOFAC]_vars

(***************************************************************************)
(* process_sanctions_data over entities on which extract_entity_data may   *)
(* raise                                                                   *)
(***************************************************************************)
RaiseProfiles == {S_add, S_modify} \X BOOLEAN \X BOOLEAN
InitOFACRaise ==
    /\ \E n \in 0..MaxEntities : \E p \in [1..n -> RaiseProfiles] :
         LET list == [k \in 1..n |->
                        [OfacEntity(k, p[k][1], p[k][2], <<S_12_Oct_1958>>)
                            EXCEPT !.raises = p[k][3]]]
         IN  ofac_doc = [entity |-> <<>>, ns_entity |-> list, entities |-> <<>>,
                         ns_entities |-> <<list>>]
    /\ OfacStart
    /\ IdleStep6 /\ IdleClean /\ IdleEU /\ IdleDate /\ IdleUN /\ IdleWF /\ IdleGemini
SpecOFACRaise == InitOFACRaise /\ [][NextOFAC]_vars

(***************************************************************************)
(* process_sanctions_data over documents of different shapes               *)
(***************************************************************************)
\* the containers a document with the entity elements list may have: none, or
\* one whose children are the first c of them (the others lie elsewhere in
\* the document)
ContainersOf(list) == {<<>>} \cup {<<SubSeq(list, 1, c)>> : c \in 0..Len(list)}
\* entity elements without namespace and entity elements in the namespace
InitOFACShapes ==
    /\ \E n1 \in 0..MaxEntities : \E n2 \in 0..MaxEntities :
         LET plain == [k \in 1..n1 |-> OfacEntity(k, S_add, TRUE, <<>>)]
             in_ns == [k \in 1..n2 |-> OfacEntity(n1 + k, S_add, TRUE, <<>>)]
         IN  \E c1 \in ContainersOf(plain) : \E c2 \in ContainersOf(in_ns) :
               ofac_doc = [entity |-> plain, ns_entity |-> in_ns,
                           entities |-> c1, ns_entities |-> c2]
    /\ OfacStart
    /\ IdleStep6 /\ IdleClean /\ IdleEU /\ IdleDate /\ IdleUN /\ IdleWF /\ IdleGemini
SpecOFACShapes == InitOFACShapes /\ [][NextOFAC]_vars

(***************************************************************************)
(* A birthdate from the OFAC extractor to the consolidated table           *)
(***************************************************************************)
BirthYears == {958, 1000, 1958, 2000}
BirthDays == {1, 2, 10, 12, 13, 29, 30, 31}
\* a year as the four digits %Y of strptime asks for
Year4(y) == <<DigitChar(y \div 1000), DigitChar((y \div 100) % 10),
              DigitChar((y \div 10) % 10), DigitChar(y % 10)>>
\* d as a birthdate value in the form '%d %b %Y'
TextDbY(y, m, d) == Pad2(d) \o <<" ">> \o MonthAbbr[m] \o <<" ">> \o Year4(y)
\* d in the same form with the day unpadded and the month in lower case
TextDbYLoose(y, m, d) == Decimal(d) \o <<" ">> \o Lower(MonthAbbr[m]) \o <<" ">> \o Year4(y)
\* d as a birthdate value in the form '%Y-%m-%d'
TextYmd(y, m, d) == Year4(y) \o <<"-">> \o Pad2(m) \o <<"-">> \o Pad2(d)
BirthTexts(y, m, d) == {TextDbY(y, m, d), TextDbYLoose(y, m, d), TextYmd(y, m, d)}

\* the DOB_DJ cell written by save_to_csv and read by pd.read_csv: an empty
\* cell is read as missing, a cell with separators stays the text it is
read_csv_cell(t) == IF t = <<>> THEN NaN ELSE t

\* step 4: extract_entity_data on an entity with the birthdate date_str
DobExtract ==
    /\ date_str # None /\ entity_data = BlankData
    /\ entity_data' = extract_entity_data(
                         OfacAddedEntity(<<S_600>>,
                             <<[type |-> <<FT_birthdate>>, value |-> date_str]>>, <<>>, <<>>))
    /\ UNCHANGED <<date_str, dob_result>>
    /\ UNCHANGED <<ofac_doc, ofac_pc, entities, ofac_i, extracted_data, ofac_df>>
    /\ UNCHANGED <<vars6, varsClean, varsEU, varsUN, varsWF, varsGemini>>

\* step 6: convert_date_format on the DOB_DJ of the row
DobNormalise ==
    /\ entity_data # BlankData /\ dob_result = None
    /\ dob_result' = convert_date_format(read_csv_cell(entity_data.DOB_DJ))
    /\ UNCHANGED <<date_str, varsOFAC>>
    /\ UNCHANGED <<vars6, varsClean, varsEU, varsUN, varsWF, varsGemini>>

\* birthdates of valid and invalid calendar dates (30 Feb, 31 Apr, ...)
InitBirth ==
    /\ \E y \in BirthYears : \E m \in 1..12 : \E d \in BirthDays :
         date_str \in BirthTexts(y, m, d)
    /\ dob_result = None
    /\ ofac_doc = NoDocument /\ OfacStart
    /\ IdleStep6 /\ IdleClean /\ IdleEU /\ IdleUN /\ IdleWF /\ IdleGemini
NextBirth == DobExtract \/ DobNormalise
SpecBirth == InitBirth /\ [][NextBirth]_vars

(***************************************************************************)
(* process_sanctions_data over one added entity: names                     *)
(***************************************************************************)
MaxNames == 3         \* name records of one entity

\* the j-th translated name of the k-th name record
NameText(k, j) == <<"n", DigitChar(k), DigitChar(j)>>
\* the translations of the k-th name record: none, one without a
\* formattedFullName, an empty one before a name, one or two with a name
TranslationLists(k) ==
    {<<>>, <<None>>, <<NameText(k, 1)>>, <<<<>>, NameText(k, 1)>>,
     <<NameText(k, 1), NameText(k, 2)>>}
\* the name records: isPrimary true, false or absent
NameRecordLists(n) ==
    {[k \in 1..n |-> [isPrimary |-> p[k], translations |-> t[k]]] :
        p \in [1..n -> {S_true, S_false, None}],
        t \in {x \in [1..n -> UNION {TranslationLists(k) : k \in 1..n}] :
                  \A k \in 1..n : x[k] \in TranslationLists(k)}}
InitOFACNames ==
    /\ \E n \in 0..MaxNames : \E names \in NameRecordLists(n) :
         ofac_doc = OfacDocumentOf(
                       [OfacAddedEntity(<<S_600>>, <<>>, <<>>, <<>>) EXCEPT !.names = names])
    /\ OfacStart
    /\ IdleStep6 /\ IdleClean /\ IdleEU /\ IdleDate /\ IdleUN /\ IdleWF /\ IdleGemini
\* process_sanctions_data over entities with several name records
SpecOFACNames == InitOFACNames /\ [][NextOFAC]_vars

\* A UN document whose records have all, some or none of their name elements
S_blank == <<" ">>
UnFirstNames(k) == {RowName(k), S_blank, None}
UnNamelessIndividuals(n) ==
    {[k \in 1..n |-> [UnIndividualRecord(k, l[k]) EXCEPT !.FIRST_NAME = f[k], !.SECOND_NAME = s[k]]] :
        l \in [1..n -> {S_2025_07_30, S_2025_07_28}],
        f \in {x \in [1..n -> {RowName(1), RowName(2), S_blank, None}] : \A k \in 1..n : x[k] \in UnFirstNames(k)},
        s \in [1..n -> {S_B, None}]}
UnNamelessEntities(n) ==
    {[k \in 1..n |-> [UnEntityRecord(k, l[k]) EXCEPT !.FIRST_NAME = f[k]]] :
        l \in [1..n -> {S_2025_07_30, S_2025_07_28}],
        f \in {x \in [1..n -> {RowName(1), RowName(2), S_blank, None}] : \A k \in 1..n : x[k] \in UnFirstNames(k)}}
InitUNNames ==
    /\ \E ni \in 0..MaxUnRecords : \E ne \in 0..(MaxUnRecords - ni) :
         \E inds \in UnNamelessIndividuals(ni) : \E ents \in UnNamelessEntities(ne) :
           un_doc = [dateGenerated |-> S_gen_0730,
                     today |-> [y |-> 2025, m |-> 7, d |-> 30],
                     INDIVIDUALS |-> <<inds>>,
                     ENTITIES |-> <<ents>>]
    /\ un_pc = "start" /\ un_i = 0 /\ target_dates = <<>>
    /\ individuals_data = <<>> /\ entities_data = <<>> /\ un_files = <<>>
    /\ IdleStep6 /\ IdleClean /\ IdleEU /\ IdleDate /\ IdleOFAC /\ IdleWF /\ IdleGemini
\* parse_un_sanctions_xml over records with and without names
SpecUNNames == InitUNNames /\ [][NextUN]_vars

(***************************************************************************)
(* main.py: run_workflow and the batch steps                               *)
(*                                                                         *)
(* What a document, the OFAC source and the UN source will meet is fixed   *)
(* at the start of the run:                                                *)
(*   pdf_raises     pymupdf4llm.to_markdown (or writing the .md) raises    *)
(*   b64_fails      file_to_base64 returns success False                   *)
(*   b64_raises     file_to_base64 raises                                  *)
(*   gemini_fails   convert_markdown_to_csv returns success False          *)
(*   gemini_raises  convert_markdown_to_csv raises                         *)
(*   ok             the CSV is written and has a row                       *)
(*   ok_empty       the CSV is written with a header only                  *)
(*   ok_unreadable  the CSV is written and pd.read_csv raises on it        *)
(* self.conversion_results and self.base64_results are assigned only when  *)
(* non-empty, so "the attribute exists" is "the list is not empty".        *)
(***************************************************************************)
MaxPdfs == 2          \* documents of one batch

DocOutcomes == {"ok", "ok_empty", "ok_unreadable", "pdf_raises", "b64_fails", "b64_raises",
                "gemini_fails", "gemini_raises"}
CsvWritten == {"ok", "ok_empty", "ok_unreadable"}
S_doc == <<"d","o","c">>
\* os.path.splitext(result['pdf_file'])[0] of the d-th document
PdfName(d) == S_doc \o <<DigitChar(d)>>
\* csv_filename (line 409)
CsvFilename(d) == S_sanctions_from_ \o PdfName(d) \o <<"_">> \o S_timestamp \o S_csv
\* the table pd.read_csv gives for the CSV of the d-th document
CsvTable(d) ==
    IF pdf_files[d] = "ok_unreadable" THEN Unreadable
    ELSE SourceTable(CsvFilename(d), IF pdf_files[d] = "ok" THEN <<RowName(d)>> ELSE <<>>)

\* all orders of a list (glob gives the directory's order)
Perms(s) ==
    {[i \in 1..Len(s) |-> s[p[i]]] :
        p \in {q \in [1..Len(s) -> 1..Len(s)] : \A i, j \in 1..Len(s) : i # j => q[i] # q[j]}}
IsCleanedFile(f) == ~Contains(f.name, S_sanctions_from_)
IsFromFile(f) == Contains(f.name, S_sanctions_from_)

\* self.timestamp (line 39), the start time of the r-th run
RunTimestamp(r) ==
    <<"2","0","2","5","0","7","3","0","_","1","1","5","9","0">> \o <<DigitChar(r)>>
\* self.final_output (line 40)
final_output(r) == S_sanctions_cleaned_ \o RunTimestamp(r) \o S_csv

\* writing a file replaces a file of the same name
WriteFile(dir, f) ==
    IF \E k \in 1..Len(dir) : dir[k].name = f.name
    THEN [k \in 1..Len(dir) |-> IF dir[k].name = f.name THEN f ELSE dir[k]]
    ELSE Append(dir, f)

EndsWith(s, suffix) ==
    Len(suffix) <= Len(s) /\ SubSeq(s, Len(s) - Len(suffix) + 1, Len(s)) = suffix
\* glob pattern "sanctions_cleaned_*_*.csv" of cleanup_temp_files
MatchesCleanedTimestamped(name) ==
    /\ Len(name) >= Len(S_sanctions_cleaned_) + Len(S_csv)
    /\ StartsAt(name, 1, S_sanctions_cleaned_) /\ EndsWith(name, S_csv)
    /\ Contains(SubSeq(name, Len(S_sanctions_cleaned_) + 1, Len(name) - Len(S_csv)), <<"_">>)
\* glob pattern "sanctions_from_*.csv"
MatchesFrom(name) ==
    /\ Len(name) >= Len(S_sanctions_from_) + Len(S_csv)
    /\ StartsAt(name, 1, S_sanctions_from_) /\ EndsWith(name, S_csv)
\* the directory after cleanup_temp_files has removed cleanup_files
\* (lines 824-866); keep is self.final_output
RemoveTempFiles(dir, keep) ==
    LET Stays(f) == f.name = keep
                    \/ ~(MatchesCleanedTimestamped(f.name) \/ MatchesFrom(f.name))
    IN  SelectSeq(dir, Stays)

ResetLoop ==
    /\ wf_i' = 1 /\ results' = <<>> /\ successful_conversions' = 0

\* run_workflow returns False from inside the loop over the steps
WfAbort ==
    /\ wf_result' = "False" /\ wf_pc' = "returned"
    /\ UNCHANGED <<wf_step, success_steps>>

\* step1_pdf_to_md_batch, one iteration of "for i, pdf_file" (lines 270-314)
WfStep1Doc ==
    /\ wf_pc = "step1" /\ wf_i <= Len(pdf_files)
    /\ IF pdf_files[wf_i] = "pdf_raises"
       THEN /\ results' = Append(results, [pdf_file |-> wf_i, success |-> FALSE])
            /\ UNCHANGED successful_conversions
       ELSE /\ results' = Append(results, [pdf_file |-> wf_i, success |-> TRUE])
            /\ successful_conversions' = successful_conversions + 1
    /\ wf_i' = wf_i + 1
    /\ UNCHANGED <<run_no, pdf_files, gemini_api_key, ofac_source, un_source, wf_pc, wf_step,
                   conversion_results, base64_results, disk, success_steps, wf_result>>
    /\ UNCHANGED <<vars6, varsClean, varsEU, varsDate, varsOFAC, varsUN, varsGemini>>

\* the end of step 1 (lines 321-327) and what run_workflow does with its
\* result (lines 959-966)
WfStep1End ==
    /\ wf_pc = "step1" /\ wf_i > Len(pdf_files)
    /\ IF successful_conversions = 0
       THEN /\ WfAbort
            /\ UNCHANGED <<conversion_results, wf_i, results, successful_conversions>>
       ELSE /\ conversion_results' = results
            /\ success_steps' = success_steps + 1
            /\ wf_step' = 2 /\ wf_pc' = "step2"
            /\ ResetLoop
            /\ UNCHANGED wf_result
    /\ UNCHANGED <<run_no, pdf_files, gemini_api_key, ofac_source, un_source, base64_results, disk>>
    /\ UNCHANGED <<vars6, varsClean, varsEU, varsDate, varsOFAC, varsUN, varsGemini>>

\* step 2 leaving its loop at the first document that fails
WfStep2Doc_break ==
    /\ wf_pc = "step2" /\ conversion_results # <<>> /\ wf_i <= Len(conversion_results)
    /\ LET result == conversion_results[wf_i]
       IN  IF result.success /\ pdf_files[result.pdf_file] \notin {"b64_fails", "b64_raises"}
           THEN /\ results' = Append(results, result)
                /\ successful_conversions' = successful_conversions + 1
                /\ wf_i' = wf_i + 1
           ELSE /\ UNCHANGED <<results, successful_conversions>>
                /\ wf_i' = Len(conversion_results) + 1
    /\ UNCHANGED <<run_no, pdf_files, gemini_api_key, ofac_source, un_source, wf_pc, wf_step,
                   conversion_results, base64_results, disk, success_steps, wf_result>>
    /\ UNCHANGED <<vars6, varsClean, varsEU, varsDate, varsOFAC, varsUN, varsGemini>>

\* step2_md_to_base64_batch, one iteration of "for result" (lines 342-372)
WfStep2Doc ==
    /\ wf_pc = "step2" /\ conversion_results # <<>> /\ wf_i <= Len(conversion_results)
    /\ LET result == conversion_results[wf_i]
       IN  IF result.success /\ pdf_files[result.pdf_file] \notin {"b64_fails", "b64_raises"}
           THEN /\ results' = Append(results, result)
                /\ successful_conversions' = successful_conversions + 1
           ELSE UNCHANGED <<results, successful_conversions>>
    /\ wf_i' = wf_i + 1
    /\ UNCHANGED <<run_no, pdf_files, gemini_api_key, ofac_source, un_source, wf_pc, wf_step,
                   conversion_results, base64_results, disk, success_steps, wf_result>>
    /\ UNCHANGED <<vars6, varsClean, varsEU, varsDate, varsOFAC, varsUN, varsGemini>>

\* the start test and the end of step 2 (lines 333-335, 378-383) and what
\* run_workflow does with its result
WfStep2End ==
    /\ wf_pc = "step2"
    /\ conversion_results = <<>> \/ wf_i > Len(conversion_results)
    /\ IF conversion_results = <<>> \/ successful_conversions = 0
       THEN /\ WfAbort
            /\ UNCHANGED <<base64_results, wf_i, results, successful_conversions>>
       ELSE /\ base64_results' = results
            /\ success_steps' = success_steps + 1
            /\ wf_step' = 3 /\ wf_pc' = "step3"
            /\ ResetLoop
            /\ UNCHANGED wf_result
    /\ UNCHANGED <<run_no, pdf_files, gemini_api_key, ofac_source, un_source, conversion_results, disk>>
    /\ UNCHANGED <<vars6, varsClean, varsEU, varsDate, varsOFAC, varsUN, varsGemini>>

\* run_workflow skips step 3 without an API key (lines 955-957)
WfStep3Skip ==
    /\ wf_pc = "step3" /\ ~gemini_api_key
    /\ wf_step' = 4 /\ wf_pc' = "step4"
    /\ UNCHANGED <<run_no, pdf_files, gemini_api_key, ofac_source, un_source, wf_i, results,
                   successful_conversions, conversion_results, base64_results, disk,
                   success_steps, wf_result>>
    /\ UNCHANGED <<vars6, varsClean, varsEU, varsDate, varsOFAC, varsUN, varsGemini>>

\* step3_base64_to_csv_via_gemini_batch, one iteration of "for i, result"
\* (lines 403-447)
WfStep3Doc ==
    /\ wf_pc = "step3" /\ gemini_api_key /\ wf_i <= Len(base64_results)
    /\ LET d == base64_results[wf_i].pdf_file
       IN  IF pdf_files[d] \in CsvWritten
           THEN /\ disk' = WriteFile(disk, [name |-> CsvFilename(d), df |-> CsvTable(d)])
                /\ successful_conversions' = successful_conversions + 1
           ELSE UNCHANGED <<disk, successful_conversions>>
    /\ wf_i' = wf_i + 1
    /\ UNCHANGED <<run_no, pdf_files, gemini_api_key, ofac_source, un_source, wf_pc, wf_step, results,
                   conversion_results, base64_results, success_steps, wf_result>>
    /\ UNCHANGED <<vars6, varsClean, varsEU, varsDate, varsOFAC, varsUN, varsGemini>>

\* step 3 treated as a critical step: its failure ends the run
WfStep3End_critical ==
    /\ wf_pc = "step3" /\ gemini_api_key /\ wf_i > Len(base64_results)
    /\ IF successful_conversions > 0
       THEN /\ success_steps' = success_steps + 1
            /\ wf_step' = 4 /\ wf_pc' = "step4"
            /\ UNCHANGED wf_result
       ELSE WfAbort
    /\ UNCHANGED <<run_no, pdf_files, gemini_api_key, ofac_source, un_source, wf_i, results,
                   successful_conversions, conversion_results, base64_results, disk>>
    /\ UNCHANGED <<vars6, varsClean, varsEU, varsDate, varsOFAC, varsUN, varsGemini>>

\* the end of step 3 (line 463) and what run_workflow does with its result
\* (lines 959-968): a failed step 3 is not counted and the loop goes on
WfStep3End ==
    /\ wf_pc = "step3" /\ gemini_api_key /\ wf_i > Len(base64_results)
    /\ success_steps' = IF successful_conversions > 0 THEN success_steps + 1 ELSE success_steps
    /\ wf_step' = 4 /\ wf_pc' = "step4"
    /\ UNCHANGED <<run_no, pdf_files, gemini_api_key, ofac_source, un_source, wf_i, results,
                   successful_conversions, conversion_results, base64_results, disk, wf_result>>
    /\ UNCHANGED <<vars6, varsClean, varsEU, varsDate, varsOFAC, varsUN, varsGemini>>

\* step 4 counted only when the OFAC source delivered its table
WfStep4_uncounted ==
    /\ wf_pc = "step4"
    /\ disk' = IF ofac_source = "rows"
               THEN WriteFile(disk, [name |-> F_ofac, df |-> SourceTable(F_ofac, <<S_A>>)])
               ELSE disk
    /\ success_steps' = IF ofac_source = "rows" THEN success_steps + 1 ELSE success_steps
    /\ wf_step' = 5 /\ wf_pc' = "step5"
    /\ UNCHANGED <<run_no, pdf_files, gemini_api_key, ofac_source, un_source, wf_i, results,
                   successful_conversions, conversion_results, base64_results, wf_result>>
    /\ UNCHANGED <<vars6, varsClean, varsEU, varsDate, varsOFAC, varsUN, varsGemini>>

\* step4_ofac_extraction (lines 465-495): True whatever happens; the
\* extractor saves its table only when it has rows
WfStep4 ==
    /\ wf_pc = "step4"
    /\ disk' = IF ofac_source = "rows"
               THEN WriteFile(disk, [name |-> F_ofac, df |-> SourceTable(F_ofac, <<S_A>>)])
               ELSE disk
    /\ success_steps' = success_steps + 1
    /\ wf_step' = 5 /\ wf_pc' = "step5"
    /\ UNCHANGED <<run_no, pdf_files, gemini_api_key, ofac_source, un_source, wf_i, results,
                   successful_conversions, conversion_results, base64_results, wf_result>>
    /\ UNCHANGED <<vars6, varsClean, varsEU, varsDate, varsOFAC, varsUN, varsGemini>>

\* step5_un_extraction (lines 497-528): True whatever happens
WfStep5 ==
    /\ wf_pc = "step5"
    /\ disk' = IF un_source = "rows"
               THEN WriteFile(disk, [name |-> F_un, df |-> SourceTable(F_un, <<S_B>>)])
               ELSE disk
    /\ success_steps' = success_steps + 1
    /\ wf_step' = 6 /\ wf_pc' = "step6"
    /\ UNCHANGED <<run_no, pdf_files, gemini_api_key, ofac_source, un_source, wf_i, results,
                   successful_conversions, conversion_results, base64_results, wf_result>>
    /\ UNCHANGED <<vars6, varsClean, varsEU, varsDate, varsOFAC, varsUN, varsGemini>>

\* run_workflow calls step6_consolidate_data, which globs the directory
WfStep6Call ==
    /\ wf_pc = "step6" /\ pc = "idle"
    /\ \E c \in Perms(SelectSeq(disk, IsCleanedFile)) :
         \E f \in Perms(SelectSeq(disk, IsFromFile)) : files' = c \o f
    /\ pc' = "start"
    /\ wf_pc' = "in_step6"
    /\ UNCHANGED <<idx, all_dataframes, total_records, processing_summary, final_df,
                   final_summary>>
    /\ UNCHANGED <<run_no, pdf_files, gemini_api_key, ofac_source, un_source, wf_step, wf_i, results,
                   successful_conversions, conversion_results, base64_results, disk,
                   success_steps, wf_result>>
    /\ UNCHANGED <<varsClean, varsEU, varsDate, varsOFAC, varsUN, varsGemini>>

\* run_workflow going on to its summary whatever step 6 returned
WfStep6Return_lenient ==
    /\ wf_pc = "in_step6" /\ pc \in {"done", "failed"}
    /\ success_steps' = IF pc = "done" THEN success_steps + 1 ELSE success_steps
    /\ wf_pc' = "summary"
    /\ disk' = IF pc = "done"
               THEN WriteFile(disk, [name |-> final_output(run_no), df |-> final_df])
               ELSE disk
    /\ UNCHANGED <<wf_step, wf_result>>
    /\ UNCHANGED <<run_no, pdf_files, gemini_api_key, ofac_source, un_source, wf_i, results,
                   successful_conversions, conversion_results, base64_results>>
    /\ UNCHANGED <<vars6, varsClean, varsEU, varsDate, varsOFAC, varsUN, varsGemini>>

\* what run_workflow does with the result of step 6 (lines 959-966); the
\* table step 6 wrote with to_csv (line 735) is in the directory from here on
WfStep6Return ==
    /\ wf_pc = "in_step6" /\ pc \in {"done", "failed"}
    /\ IF pc = "failed"
       THEN WfAbort /\ UNCHANGED disk
       ELSE /\ success_steps' = success_steps + 1
            /\ wf_pc' = "summary"
            /\ disk' = WriteFile(disk, [name |-> final_output(run_no), df |-> final_df])
            /\ UNCHANGED <<wf_step, wf_result>>
    /\ UNCHANGED <<run_no, pdf_files, gemini_api_key, ofac_source, un_source, wf_i, results,
                   successful_conversions, conversion_results, base64_results>>
    /\ UNCHANGED <<vars6, varsClean, varsEU, varsDate, varsOFAC, varsUN, varsGemini>>

\* the end of run_workflow (lines 986-1034); on the successful path
\* cleanup_temp_files asks whether to delete the temporary files
WfSummary ==
    /\ wf_pc = "summary"
    /\ wf_result' = IF success_steps >= 4
                    THEN (IF final_df # Unreadable THEN "True" ELSE "None")
                    ELSE "False"
    /\ IF success_steps >= 4 /\ final_df # Unreadable
       THEN \E choice \in {"y", "n"} :
              disk' = IF choice = "y" THEN RemoveTempFiles(disk, final_output(run_no)) ELSE disk
       ELSE UNCHANGED disk
    /\ wf_pc' = "returned"
    /\ UNCHANGED <<run_no, pdf_files, gemini_api_key, ofac_source, un_source, wf_step, wf_i, results,
                   successful_conversions, conversion_results, base64_results, success_steps>>
    /\ UNCHANGED <<vars6, varsClean, varsEU, varsDate, varsOFAC, varsUN, varsGemini>>

InitWF ==
    /\ \E n \in 1..MaxPdfs : pdf_files \in [1..n -> DocOutcomes]
    /\ gemini_api_key \in BOOLEAN
    /\ ofac_source \in {"rows", "raises"} /\ un_source \in {"rows", "raises"}
    /\ wf_pc = "step1" /\ wf_step = 1 /\ wf_i = 1 /\ results = <<>>
    /\ successful_conversions = 0 /\ conversion_results = <<>> /\ base64_results = <<>>
    /\ disk = <<>> /\ success_steps = 0 /\ wf_result = "running" /\ run_no = 1
    /\ files = <<>> /\ pc = "idle" /\ idx = 0 /\ all_dataframes = <<>>
    /\ total_records = 0 /\ processing_summary = ZeroSummary
    /\ final_df = Unreadable /\ final_summary = NoSummary
    /\ IdleClean /\ IdleEU /\ IdleDate /\ IdleOFAC /\ IdleUN /\ IdleGemini

NextWF ==
    \/ WfStep1Doc \/ WfStep1End \/ WfStep2Doc \/ WfStep2End
    \/ WfStep3Skip \/ WfStep3Doc \/ WfStep3End \/ WfStep4 \/ WfStep5
    \/ WfStep6Call \/ Step6Glob \/ Step6ReadFile \/ Step6Merge \/ WfStep6Return
    \/ WfSummary
\* run_workflow in batch mode
SpecWF == InitWF /\ [][NextWF]_vars
\* KeyboardInterrupt while a step runs (lines 969-971): run_workflow returns
\* False; a consolidation under way is left where it is
WfCancel ==
    /\ wf_pc \in {"step1", "step2", "step3", "step4", "step5", "step6", "in_step6"}
    /\ wf_result' = "False" /\ wf_pc' = "cancelled"
    /\ pc' = IF wf_pc = "in_step6" THEN "interrupted" ELSE pc
    /\ UNCHANGED <<files, idx, all_dataframes, total_records, processing_summary, final_df,
                   final_summary>>
    /\ UNCHANGED <<run_no, pdf_files, gemini_api_key, ofac_source, un_source, wf_step, wf_i,
                   results, successful_conversions, conversion_results, base64_results, disk,
                   success_steps>>
    /\ UNCHANGED <<varsClean, varsEU, varsDate, varsOFAC, varsUN, varsGemini>>
NextWFCancel == NextWF \/ WfCancel
\* run_workflow in batch mode with a user who may interrupt it
SpecWFCancel == InitWF /\ [][NextWFCancel]_vars
\* run_workflow is one sequential thread: a batch step that can take its next
\* step takes it
WfBatchStep ==
    \/ WfStep1Doc \/ WfStep1End \/ WfStep2Doc \/ WfStep2End
    \/ WfStep3Skip \/ WfStep3Doc \/ WfStep3End
SpecWFLive == SpecWF /\ WF_vars(WfBatchStep)

(***************************************************************************)
(* Successive runs of the workflow in one working directory                *)
(***************************************************************************)
MaxRuns == 2          \* runs in the same directory

\* the batches of the successive runs: one document, whose delegated
\* extraction succeeds or fails
RunBatches == [1..1 -> {"ok", "gemini_fails"}]

\* a new process: main() builds a fresh SanctionsWorkflow (lines 36-43) and
\* calls run_workflow; only the working directory is what the last run left
WfNextRun ==
    /\ wf_pc = "returned" /\ run_no < MaxRuns
    /\ run_no' = run_no + 1
    /\ pdf_files' \in RunBatches
    /\ ofac_source' \in {"rows", "raises"} /\ un_source' \in {"rows", "raises"}
    /\ wf_pc' = "step1" /\ wf_step' = 1 /\ wf_i' = 1 /\ results' = <<>>
    /\ successful_conversions' = 0 /\ conversion_results' = <<>> /\ base64_results' = <<>>
    /\ success_steps' = 0 /\ wf_result' = "running"
    /\ files' = <<>> /\ pc' = "idle" /\ idx' = 0 /\ all_dataframes' = <<>>
    /\ total_records' = 0 /\ processing_summary' = ZeroSummary
    /\ final_df' = Unreadable /\ final_summary' = NoSummary
    /\ UNCHANGED <<gemini_api_key, disk>>
    /\ UNCHANGED <<varsClean, varsEU, varsDate, varsOFAC, varsUN, varsGemini>>

InitRuns ==
    /\ pdf_files \in RunBatches
    /\ gemini_api_key \in BOOLEAN
    /\ ofac_source \in {"rows", "raises"} /\ un_source \in {"rows", "raises"}
    /\ wf_pc = "step1" /\ wf_step = 1 /\ wf_i = 1 /\ results = <<>>
    /\ successful_conversions = 0 /\ conversion_results = <<>> /\ base64_results = <<>>
    /\ disk = <<>> /\ success_steps = 0 /\ wf_result = "running" /\ run_no = 1
    /\ files = <<>> /\ pc = "idle" /\ idx = 0 /\ all_dataframes = <<>>
    /\ total_records = 0 /\ processing_summary = ZeroSummary
    /\ final_df = Unreadable /\ final_summary = NoSummary
    /\ IdleClean /\ IdleEU /\ IdleDate /\ IdleOFAC /\ IdleUN /\ IdleGemini

NextRuns == NextWF \/ WfNextRun
\* successive runs of run_workflow in one working directory
SpecRuns == InitRuns /\ [][NextRuns]_vars

(***************************************************************************)
(* gemini_markdown_csv.py: GeminiMarkdownToCSVConverter                    *)
(***************************************************************************)
MaxCols == 18         \* columns of the generated header rows

\* a code fence: three grave accents (U+0060), the character written by name
S_fence == <<"GRAVE","GRAVE","GRAVE">>
S_fence_csv == S_fence \o <<"c","s","v">>
S_nl == <<"\n">>

\* the rest of s after its leading white space
RECURSIVE LStripSpace(_)
LStripSpace(s) == IF s # <<>> /\ IsSpace(Head(s)) THEN LStripSpace(Tail(s)) ELSE s

\* the first re.sub of clean_csv_response: every fence tagged csv goes, with
\* the white space after it
RECURSIVE RemoveCsvFences(_)
RemoveCsvFences(s) ==
    IF s = <<>> THEN <<>>
    ELSE IF StartsAt(s, 1, S_fence_csv)
    THEN RemoveCsvFences(LStripSpace(SubSeq(s, Len(S_fence_csv) + 1, Len(s))))
    ELSE <<Head(s)>> \o RemoveCsvFences(Tail(s))

\* the second re.sub of clean_csv_response: the leftmost fence followed by nothing but
\* white space up to the end of the text
RemoveEndFence(s) ==
    LET at == {i \in 1..Len(s) :
                  /\ StartsAt(s, i, S_fence)
                  /\ \A j \in (i + Len(S_fence))..Len(s) : IsSpace(s[j])}
    IN  IF at = {} THEN s ELSE SubSeq(s, 1, Min(at) - 1)

\* a cleaning that also removes an opening fence without a language tag
clean_csv_response_any_fence(csv_text) ==
    LET t == Strip(RemoveEndFence(RemoveCsvFences(csv_text)))
    IN  IF StartsAt(t, 1, S_fence) THEN Strip(SubSeq(t, Len(S_fence) + 1, Len(t))) ELSE t

\* clean_csv_response(csv_text)
clean_csv_response(csv_text) == Strip(RemoveEndFence(RemoveCsvFences(csv_text)))

\* csv.reader over the text, first record: the number of its fields, or -1
\* when there is no record (next() raises StopIteration). st is the state of
\* the reader, n the number of delimiters seen outside quotes.
RECURSIVE CsvScan(_, _, _, _)
CsvScan(s, i, st, n) ==
    IF i > Len(s) THEN n + 1
    ELSE LET c == s[i]
         IN  IF st = "quoted"
             THEN CsvScan(s, i + 1, IF c = "\"" THEN "quote_in_quoted" ELSE "quoted", n)
             ELSE IF c = "\n" THEN n + 1
             ELSE IF c = "\r"
             THEN \* a carriage return ends the record; a character other than a
                  \* line break after it makes the reader raise
                  IF i < Len(s) /\ s[i + 1] \notin {"\n", "\r"} THEN -1 ELSE n + 1
             ELSE IF c = "," THEN CsvScan(s, i + 1, "start_field", n + 1)
             ELSE IF c = "\"" /\ st \in {"start_field", "quote_in_quoted"}
             THEN CsvScan(s, i + 1, "quoted", n)
             ELSE CsvScan(s, i + 1, "in_field", n)
HeaderFieldCount(s) ==
    IF s = <<>> THEN -1
    ELSE IF s[1] \in {"\n", "\r"} THEN 0
    ELSE CsvScan(s, 1, "start_field", 0)

\* a validation that counts the commas of the first line
validate_csv_structure_commas(csv_text) ==
    LET line == SplitOn(csv_text, "\n")[1]
    IN  Cardinality({i \in 1..Len(line) : line[i] = ","}) + 1 = Cardinality(expected_headers)

\* validate_csv_structure(csv_text)
validate_csv_structure(csv_text) ==
    HeaderFieldCount(csv_text) = Cardinality(expected_headers)

\* the text of the response
ResponseText(parts) == parts.open \o parts.block \o parts.close

\* convert_markdown_to_csv(markdown_content, output_path, is_base64);
\* parts is NoResponse when process_markdown_file raises
convert_markdown_to_csv(parts, can_save) ==
    IF parts = NoResponse THEN [success |-> FALSE, error |-> "Error processing markdown"]
    ELSE IF ~can_save THEN [success |-> FALSE, error |-> "Failed to save CSV file"]
    ELSE [success |-> TRUE,
          csv_content |-> clean_csv_response(ResponseText(parts)),
          output_path |-> "csv_filename",
          message |-> "Conversion completed successfully"]

ConvertMarkdownToCsv ==
    /\ gemini_result = NoResult
    /\ gemini_result' = convert_markdown_to_csv(csv_parts, save_ok)
    \* print("Warning: CSV structure may not be as expected")
    /\ gemini_warned' = (/\ csv_parts # NoResponse
                         /\ ~validate_csv_structure(clean_csv_response(ResponseText(csv_parts))))
    /\ UNCHANGED <<csv_parts, save_ok>>
    /\ UNCHANGED <<vars6, varsClean, varsEU, varsDate, varsOFAC, varsUN, varsWF>>

\* Responses: a header row of n fields, one of which may be quoted and hold a
\* comma or a line break, with or without a data row, inside or outside fences
S_quoted_comma == <<"\"","x",",","y","\"">>
S_quoted_break == <<"\"","x","\n","y","\"">>
S_quoted_quote == <<"\"","x","\"","\"","y","\"">>
S_inner_quote == <<"x","\"","y">>
FirstFields == {<<"c">>, <<>>, S_quoted_comma, S_quoted_break, S_quoted_quote, S_inner_quote}
HeaderRow(n, first) == Join([k \in 1..n |-> IF k = 1 THEN first ELSE <<"c">>], <<",">>)
Blocks ==
    {HeaderRow(h[1], h[2]) \o body :
        h \in {x \in (1..MaxCols) \X FirstFields : x[1] > 1 \/ x[2] # <<>>},
        body \in {<<>>, <<"\n","a",",","b">>}}
OpenFences == {<<>>, S_fence_csv \o S_nl, S_fence_csv, S_fence \o S_nl}
CloseFences == {<<>>, S_nl \o S_fence, S_nl \o S_fence \o S_nl}
InitGemini ==
    /\ \/ csv_parts = NoResponse
       \/ \E o \in OpenFences, b \in Blocks \cup {<<>>}, c \in CloseFences :
            csv_parts = [open |-> o, block |-> b, close |-> c]
    /\ save_ok \in BOOLEAN
    /\ gemini_result = NoResult
    /\ gemini_warned = FALSE
    /\ IdleStep6 /\ IdleClean /\ IdleEU /\ IdleDate /\ IdleOFAC /\ IdleUN /\ IdleWF
NextGemini == ConvertMarkdownToCsv
\* convert_markdown_to_csv applied to one response
SpecGemini == InitGemini /\ [][NextGemini]_vars

(***************************************************************************)
(* Properties of the consolidation                                         *)
(***************************************************************************)
HasRows(f) == f.df # Unreadable /\ Len(f.df.rows) > 0
\* the files step6 has appended a table for
ReadableIdx == {i \in 1..Len(files) : HasRows(files[i])}
AppendedFiles == SelectSeq(SubSeq(files, 1, idx - 1), HasRows)

UNIndicative(src) ==
    \/ Contains(Lower(StrOf(src)), K_un)
    \/ Contains(Lower(StrOf(src)), K_security_council)
OFACIndicative(w) ==
    \/ Contains(Lower(StrOf(w)), K_ofac)
    \/ Contains(Lower(StrOf(w)), K_specially_designated)

\* YYYY/NNNN
IsEuCode(w) ==
    /\ Len(w) >= 6
    /\ AllDigits(SubSeq(w, 1, 4))
    /\ w[5] = "/"
    /\ AllDigits(SubSeq(w, 6, Len(w)))

\* C1: when tables share a Name, the consolidated table has exactly one row of
\* that Name, and it is the first row of that Name of the first table in
\* concatenation order: its Source is that row's, its DOB_DJ that row's
\* (normalised), its Watchlist the one resolved for that row's table.
DedupFirstTableWins ==
    pc = "done" =>
      \A i \in ReadableIdx : \A k \in 1..Len(files[i].df.rows) :
        LET n == files[i].df.rows[k].Name
            fi == Min({a \in ReadableIdx :
                         \E b \in 1..Len(files[a].df.rows) : files[a].df.rows[b].Name = n})
            fk == Min({b \in 1..Len(files[fi].df.rows) : files[fi].df.rows[b].Name = n})
            src == files[fi].df.rows[fk]
            hits == {j \in 1..Len(final_df.rows) : final_df.rows[j].Name = n}
        IN  /\ Cardinality(hits) = 1
            /\ \A j \in hits :
                 /\ final_df.rows[j].Source = src.Source
                 /\ final_df.rows[j].DOB_DJ =
                      (IF "DOB_DJ" \in final_df.columns
                       THEN convert_date_format(src.DOB_DJ) ELSE src.DOB_DJ)
                 /\ final_df.rows[j].Watchlist =
                      clean_watchlist_value(WatchlistValue(files[fi].df, files[fi].name))

\* two tables share a Name in rows that differ, and the first table's row is kept
DedupFirstTableWinsWitness ==
    /\ pc = "done"
    /\ Len(files) = 2 /\ ReadableIdx = {1, 2}
    /\ \E a \in 1..Len(files[1].df.rows) : \E b \in 1..Len(files[2].df.rows) :
         /\ files[1].df.rows[a].Name = files[2].df.rows[b].Name
         /\ files[1].df.rows[a].Source # files[2].df.rows[b].Source
         /\ \A a2 \in 1..(a - 1) : files[1].df.rows[a2].Name # files[1].df.rows[a].Name
         /\ \E j \in 1..Len(final_df.rows) :
              /\ final_df.rows[j].Name = files[1].df.rows[a].Name
              /\ final_df.rows[j].Source = files[1].df.rows[a].Source

\* C2 (as stated): every Watchlist of the consolidated table is OFAC, UN,
\* Unknown or an EU code YYYY/NNNN.
WatchlistCanonicalOnly ==
    pc = "done" =>
      \A j \in 1..Len(final_df.rows) :
        \/ final_df.rows[j].Watchlist \in {S_OFAC, S_UN, S_Unknown}
        \/ IsEuCode(final_df.rows[j].Watchlist)

\* the Watchlist of final row j is the stripped Watchlist text of the first row
\* of its source table, and that text matches no UN or OFAC keyword
KeptRaw(j) ==
    \E i \in ReadableIdx :
      /\ \E k \in 1..Len(files[i].df.rows) : files[i].df.rows[k].Name = final_df.rows[j].Name
      /\ files[i].df.rows[1].Watchlist # NaN
      /\ final_df.rows[j].Watchlist = Strip(files[i].df.rows[1].Watchlist)
      /\ ~UNIndicative(final_df.rows[j].Watchlist)
      /\ ~OFACIndicative(final_df.rows[j].Watchlist)
      /\ ~Contains(Lower(final_df.rows[j].Watchlist), K_treasury)

\* C2 (amended): every Watchlist of the consolidated table is OFAC, UN, Unknown,
\* an EU code YYYY/NNNN, the literal EU, or the stripped Watchlist text of the
\* first row of the row's source table when that text matches no keyword.
WatchlistCanonicalOrKept ==
    pc = "done" =>
      \A j \in 1..Len(final_df.rows) :
        \/ final_df.rows[j].Watchlist \in {S_OFAC, S_UN, S_Unknown, S_EU}
        \/ IsEuCode(final_df.rows[j].Watchlist)
        \/ KeptRaw(j)

\* a raw per-source Watchlist text is in the consolidated table
WatchlistKeptWitness ==
    /\ pc = "done"
    /\ \E j \in 1..Len(final_df.rows) : final_df.rows[j].Watchlist = S_HMT /\ KeptRaw(j)
    /\ \E j \in 1..Len(final_df.rows) : final_df.rows[j].Watchlist = S_EU

\* C3: clean_watchlist_value is idempotent.
CleanIdempotent == twice # None => twice = once

\* C4: a row of a table that is not document-derived, has no UN-indicative
\* Source and no Watchlist value carries Watchlist Unknown in the consolidated
\* table.
NoProvenanceIsUnknown ==
    pc = "done" =>
      \A i \in ReadableIdx :
        ( /\ ~Contains(files[i].name, S_sanctions_from_)
          /\ \A k \in 1..Len(files[i].df.rows) :
               /\ files[i].df.rows[k].Watchlist = NaN
               /\ ~UNIndicative(files[i].df.rows[k].Source) )
        => \A k \in 1..Len(files[i].df.rows) : \A j \in 1..Len(final_df.rows) :
             final_df.rows[j].Name = files[i].df.rows[k].Name
               => final_df.rows[j].Watchlist = S_Unknown

\* The precedence of update_watchlist_column, applied to the values of one row.
RowResolve(row, filename) ==
    IF UNIndicative(row.Source) THEN S_UN
    ELSE IF OFACIndicative(row.Watchlist) THEN S_OFAC
    ELSE IF row.Watchlist # NaN /\ row.Watchlist # <<>> THEN row.Watchlist
    ELSE IF Contains(filename, S_sanctions_from_)
    THEN (IF EuNumberMatch(filename) # None
          THEN extract_eu_watchlist_from_number(EuNumberMatch(filename)) ELSE S_EU)
    ELSE S_Unknown

\* C5 (as stated): update_watchlist_column resolves each row from its own values.
WatchlistResolvedPerRow ==
    \A k \in 1..Len(all_dataframes) : \A r \in 1..Len(all_dataframes[k].rows) :
      all_dataframes[k].rows[r].Watchlist =
        RowResolve(AppendedFiles[k].df.rows[r], AppendedFiles[k].name)

\* C5 (amended): update_watchlist_column resolves the precedence once per source
\* table, from the values of the table's first row, and gives every row of the
\* table that value.
WatchlistResolvedPerTable ==
    \A k \in 1..Len(all_dataframes) : \A r \in 1..Len(all_dataframes[k].rows) :
      all_dataframes[k].rows[r].Watchlist =
        RowResolve(AppendedFiles[k].df.rows[1], AppendedFiles[k].name)

\* a table whose first row has a UN Source and whose second row has an OFAC
\* Watchlist and no Source: both rows are given UN
WatchlistResolvedPerTableWitness ==
    \E k \in 1..Len(all_dataframes) :
      /\ Len(all_dataframes[k].rows) >= 2
      /\ UNIndicative(AppendedFiles[k].df.rows[1].Source)
      /\ AppendedFiles[k].df.rows[1].Watchlist # NaN
      /\ AppendedFiles[k].df.rows[2].Source = NaN
      /\ AppendedFiles[k].df.rows[2].Watchlist = S_OFAC_label
      /\ all_dataframes[k].rows[1].Watchlist = S_UN
      /\ all_dataframes[k].rows[2].Watchlist = S_UN

\* C6: for a digit string c, the EU code is c[0:4] + "/" + c[4:] without its
\* leading zeros when c has at least 8 digits and that remainder is not empty,
\* and the literal EU otherwise.
EuCodeDerivation ==
    eu_result # None =>
      LET c == pdf_number
          nonzero == {i \in 5..Len(c) : c[i] # "0"}
      IN  /\ IF Len(c) >= 8 /\ nonzero # {}
             THEN eu_result = SubSeq(c, 1, 4) \o <<"/">> \o SubSeq(c, Min(nonzero), Len(c))
             ELSE eu_result = S_EU
          /\ c = S_202501578 => eu_result = S_2025_1578
          /\ c \in {S_2025000, S_20250000} => eu_result = S_EU

\* a code whose number has leading zeros has been derived
EuCodeDerivationWitness ==
    /\ pdf_number = S_202501578
    /\ eu_result = S_2025_1578

\* the patterns in the order the claim gives them
ClaimedPatterns ==
    << [order |-> "dmY", sep |-> "/"], [order |-> "dmY", sep |-> "-"],
       [order |-> "dmY", sep |-> "."], [order |-> "Ymd", sep |-> "-"],
       [order |-> "Ymd", sep |-> "/"], [order |-> "mdY", sep |-> "/"],
       [order |-> "dmY", sep |-> " "] >>

\* The claimed result for the text s: s itself when it has the dd MMM yyyy
\* shape, else the rendering under the first claimed pattern that parses s,
\* else s itself.
ClaimedDob(s) ==
    IF HasDobShape(s) THEN s
    ELSE LET ok == {i \in 1..Len(ClaimedPatterns) : strptime(s, ClaimedPatterns[i]) # NoDate}
         IN  IF ok = {} THEN s
             ELSE strftime_dbY(strptime(s, ClaimedPatterns[Min(ok)]))

NonBlank(v) == v # NaN /\ Strip(v) # <<>>

\* C7 (as stated): the result for a non-blank cell s is s unchanged when s has
\* the dd MMM yyyy shape or no pattern parses it, else its rendering under the
\* first pattern that parses it.
DobNormalisedAsStated ==
    (dob_result # None /\ NonBlank(date_str)) => dob_result = ClaimedDob(date_str)

\* C7 (amended): the same, for the cell stripped of surrounding white space.
DobNormalisedStripped ==
    (dob_result # None /\ NonBlank(date_str)) =>
      /\ dob_result = ClaimedDob(Strip(date_str))
      /\ Strip(date_str) \in {S_dob_numeric, S_iso_1958_10_12, S_12_Oct_1958}
           => dob_result = S_12_Oct_1958
      /\ strptime(Strip(date_str), [order |-> "dmY", sep |-> "/"]) # NoDate
           => dob_result = strftime_dbY(strptime(Strip(date_str), [order |-> "dmY", sep |-> "/"]))

\* a padded cell that both the day-first and the month-first pattern parse has
\* been rendered day-first
DobNormalisedWitness ==
    /\ date_str = <<" ">> \o S_dob_numeric \o <<" ">>
    /\ dob_result = S_12_Oct_1958

\* the DateOfBirth text v is parsed by no date pattern of the extractor or of
\* the consolidation
UnparsedBirthdate(v) ==
    /\ v # <<>>
    /\ strptime(v, fmt_dbY) = NoDate /\ strptime(v, fmt_Ymd) = NoDate
    /\ \A i \in 1..Len(date_formats) : strptime(Strip(v), date_formats[i]) = NoDate
\* the DOB_DJ cell of an extractor row after to_csv, read_csv and
\* standardize_dob_format
DobDjOf(row) == convert_date_format(IF row.DOB_DJ = <<>> THEN NaN ELSE row.DOB_DJ)

\* C8: a row whose Date of Birth no date pattern parses has the raw Date of
\* Birth text as its DobDj, and as DobYear the bare four-digit year of that
\* text, or nothing when it has none.
UnparsedBirthdateKeptRaw ==
    ofac_pc = "done" =>
      \A j \in 1..Len(ofac_df.rows) :
        LET row == ofac_df.rows[j]
        IN  UnparsedBirthdate(row.Date_of_Birth) =>
              /\ DobDjOf(row) = row.Date_of_Birth
              /\ row.DOB_YEAR = (IF year_match(row.Date_of_Birth) # None
                                 THEN year_match(row.Date_of_Birth) ELSE <<>>)

ActionOf(entity) == IF entity.action = None THEN <<>> ELSE entity.action
HasPrimaryName(entity) ==
    \E k \in 1..Len(entity.names) : entity.names[k].isPrimary = S_true

\* C9: an entity whose action is not "add" leaves every field of its
\* extracted data blank and contributes no row; the rows extracted so far are
\* exactly the named action="add" entities processed so far, in order.
OfacActionFilter ==
    ofac_pc \in {"loop", "done"} =>
      LET done == 1..(ofac_i - 1)
          added == {k \in done : ActionOf(entities[k]) = S_add /\ HasPrimaryName(entities[k])}
      IN  /\ ofac_i > 1 /\ ActionOf(entities[ofac_i - 1]) # S_add => entity_data = BlankData
          /\ Len(extracted_data) = Cardinality(added)
          /\ \A k \in done :
               (\E j \in 1..Len(extracted_data) : extracted_data[j].Name = RowName(k))
                 <=> k \in added
          /\ ofac_pc = "done" /\ entities # <<>> => ofac_df.rows = extracted_data

\* a document with an add entity and a modify entity that has names,
\* features, documents and a sanctions list has been processed
OfacActionFilterWitness ==
    /\ ofac_pc = "done" /\ Len(entities) = 2
    /\ ActionOf(entities[1]) = S_modify /\ HasPrimaryName(entities[1])
    /\ entities[1].features # <<>> /\ entities[1].identityDocuments # <<>>
    /\ ActionOf(entities[2]) = S_add
    /\ Len(ofac_df.rows) = 1 /\ ofac_df.rows[1].Name = RowName(2)

\* date.toordinal(): the number of the day counted from 0001-01-01
DaysBeforeMonth == <<0, 31, 59, 90, 120, 151, 181, 212, 243, 273, 304, 334>>
ToOrdinal(dt) ==
    365 * (dt.y - 1) + ((dt.y - 1) \div 4) - ((dt.y - 1) \div 100) + ((dt.y - 1) \div 400)
    + DaysBeforeMonth[dt.m] + (IF dt.m > 2 /\ IsLeap(dt.y) THEN 1 ELSE 0) + dt.d

\* LISTED_ON parses as %Y-%m-%d and is G or the day before G
ListedOnGOrDayBefore(listed_on, G) ==
    /\ Truthy(listed_on)
    /\ strptime(listed_on, fmt_Ymd) # NoDate
    /\ ToOrdinal(strptime(listed_on, fmt_Ymd)) \in {ToOrdinal(G), ToOrdinal(G) - 1}

\* C10: with G the date of the root's dateGenerated, a record is extracted if
\* and only if its LISTED_ON parses as %Y-%m-%d and is G or G minus one day;
\* a missing or unparseable LISTED_ON skips the record without an error; an
\* absent section gives no record of its category and the other section is
\* still processed.
UnDateWindow ==
    Truthy(un_doc.dateGenerated) /\ fromisoformat_date(ReplaceZ(un_doc.dateGenerated)) # NoDate =>
      LET G == fromisoformat_date(ReplaceZ(un_doc.dateGenerated))
          inds == UnIndividuals
          ents == UnEntities
      IN  /\ un_pc # "error"
          /\ un_pc = "done" =>
               /\ \A k \in 1..Len(inds) :
                    (\E j \in 1..Len(individuals_data) :
                        individuals_data[j].Reference_Number = UnIndividualRef(k))
                      <=> ListedOnGOrDayBefore(inds[k].LISTED_ON, G)
               /\ \A k \in 1..Len(ents) :
                    (\E j \in 1..Len(entities_data) :
                        entities_data[j].Reference_Number = UnEntityRef(k))
                      <=> ListedOnGOrDayBefore(ents[k].LISTED_ON, G)
               /\ Len(individuals_data) <= Len(inds)
               /\ Len(entities_data) <= Len(ents)
               /\ un_doc.INDIVIDUALS = <<>> => individuals_data = <<>>
               /\ un_doc.ENTITIES = <<>> => entities_data = <<>>
               /\ \A f \in 1..Len(un_files) : un_files[f].table.rows # <<>>

\* a document generated on 1 March without an ENTITIES section: the
\* individual listed on 28 February is extracted, the one with an unparseable
\* LISTED_ON is not
UnDateWindowWitness ==
    /\ un_pc = "done" /\ un_doc.dateGenerated = S_gen_0301
    /\ un_doc.ENTITIES = <<>> /\ un_doc.INDIVIDUALS # <<>>
    /\ Len(un_doc.INDIVIDUALS[1]) = 2
    /\ un_doc.INDIVIDUALS[1][1].LISTED_ON = S_30_07_2025
    /\ un_doc.INDIVIDUALS[1][2].LISTED_ON = S_2025_02_28
    /\ Len(individuals_data) = 1 /\ individuals_data[1].Listed_On = S_2025_02_28
    /\ Len(un_files) = 1

\* the single entity of the document and its row
TheEntity == ofac_doc.ns_entity[1]
TheRow == ofac_df.rows[1]
UsableDoc(doc) == doc.type # <<>> /\ Truthy(doc.documentNumber)
DocText(doc) == IF Truthy(doc.documentNumber) THEN doc.documentNumber ELSE <<>>

\* C11 (as stated): ID_1/ID_Type1 come from the first identity document and
\* ID_2/ID_Type2 from the second, in document order; later documents are
\* dropped.
IdsFromFirstTwoDocuments ==
    ofac_pc = "done" =>
      LET docs == TheEntity.identityDocuments
      IN  /\ TheRow.ID_1 = (IF Len(docs) >= 1 THEN DocText(docs[1]) ELSE <<>>)
          /\ TheRow.ID_2 = (IF Len(docs) >= 2 THEN DocText(docs[2]) ELSE <<>>)

\* C11 (amended): ID_1/ID_Type1 come from the first identity document that
\* has a type element and a non-empty number, ID_2/ID_Type2 from the second
\* such document; every other document is dropped; the type is the mapped
\* name, or "Doc Type {id}" for an unmapped reference id.
IdsFromFirstTwoUsableDocuments ==
    ofac_pc = "done" =>
      LET docs == TheEntity.identityDocuments
          usable == {k \in 1..Len(docs) : UsableDoc(docs[k])}
          first == IF usable = {} THEN 0 ELSE Min(usable)
          second == IF usable \ {first} = {} THEN 0 ELSE Min(usable \ {first})
          TypeName(k) == IF docs[k].type[1] = S_1571 THEN S_Passport
                         ELSE S_Doc_Type_ \o docs[k].type[1]
      IN  /\ TheRow.ID_1 = (IF first = 0 THEN <<>> ELSE docs[first].documentNumber)
          /\ TheRow.ID_Type1 = (IF first = 0 THEN <<>> ELSE TypeName(first))
          /\ TheRow.ID_2 = (IF second = 0 THEN <<>> ELSE docs[second].documentNumber)
          /\ TheRow.ID_Type2 = (IF second = 0 THEN <<>> ELSE TypeName(second))
          /\ \A k \in 1..Len(docs) :
               k \notin {first, second} =>
                 \A f \in DOMAIN TheRow : TheRow[f] # DocNumber(k)

\* an entity with five identity documents, the first without a number and the
\* second of an unmapped type: ID_1 and ID_2 come from the second and third
IdsFromFirstTwoUsableDocumentsWitness ==
    /\ ofac_pc = "done" /\ Len(TheEntity.identityDocuments) = 5
    /\ \A k \in 2..5 : UsableDoc(TheEntity.identityDocuments[k])
    /\ ~UsableDoc(TheEntity.identityDocuments[1])
    /\ TheRow.ID_1 = DocNumber(2) /\ TheRow.ID_Type1 = S_Doc_Type_9999
    /\ TheRow.ID_2 = DocNumber(3) /\ TheRow.ID_Type2 = S_Passport

\* C12: a Vessel with a vessel-flag value has that flag as COUNTRY, also when
\* it has a nationality; for any other type the flag is never used; without
\* the flag COUNTRY is the first nationality token, else the first address
\* country, else empty.
CountryResolution ==
    ofac_pc = "done" =>
      LET e == TheEntity
          Values(id) == {k \in 1..Len(e.features) :
                           e.features[k].type = <<id>> /\ Truthy(e.features[k].value)}
          flags == Values(FT_vessel_flag)
          nats == Values(FT_nationality)
          addrs == {k \in 1..Len(e.addresses) : Truthy(e.addresses[k].country)}
          vessel == e.entityType = <<S_602>>
          nat1 == e.features[Min(nats)].value
          semi == {i \in 1..Len(nat1) : nat1[i] = ";"}
          token == Strip(IF semi = {} THEN nat1 ELSE SubSeq(nat1, 1, Min(semi) - 1))
      IN  /\ TheRow.COUNTRY =
                (IF vessel /\ flags # {} THEN e.features[Max(flags)].value
                 ELSE IF nats # {} THEN token
                 ELSE IF addrs # {} THEN e.addresses[Min(addrs)].country
                 ELSE <<>>)
          /\ vessel /\ flags # {} => TheRow.COUNTRY = S_Panama
          /\ ~vessel => TheRow.COUNTRY # S_Panama

\* a vessel flagged Panama with nationality Liberia has COUNTRY Panama
CountryResolutionWitness ==
    /\ ofac_pc = "done" /\ TheRow.Type = S_Vessel
    /\ TheRow.Nationality = S_Liberia /\ TheRow.COUNTRY = S_Panama

\* C13: every consolidated table is sorted ascending by Name (a missing Name
\* last) and no two of its rows have the same Name.
SortedUniqueNames ==
    final_summary.set =>
      \A i, j \in 1..Len(final_df.rows) :
        i < j =>
          /\ final_df.rows[i].Name # final_df.rows[j].Name
          /\ final_df.rows[i].Name # NaN
          /\ final_df.rows[j].Name # NaN
               => StrLess(final_df.rows[i].Name, final_df.rows[j].Name)

\* three differently named rows that arrive in descending order from two
\* tables come out in ascending order
SortedUniqueNamesWitness ==
    /\ pc = "done" /\ Len(all_dataframes) = 2
    /\ Len(ConcatRows(all_dataframes)) = 3
    /\ ConcatRows(all_dataframes)[1].Name = S_a
    /\ ConcatRows(all_dataframes)[2].Name = S_B
    /\ ConcatRows(all_dataframes)[3].Name = S_AB
    /\ Len(final_df.rows) = 3
    /\ final_df.rows[1].Name = S_AB /\ final_df.rows[3].Name = S_a

\* C14: the consolidated table has exactly the 17 canonical columns, also when
\* a table of the UN extractor is among the inputs.
ConsolidatedColumnsCanonical ==
    final_summary.set => final_df.columns = expected_headers

\* C20: the per-category counts of the summary follow the provenance of each
\* table: OFAC rows under ofac_records, UN rows under un_records, rows of
\* document-derived tables under pdf_records, nothing under other_records.
RowsFrom(names) ==
    SumTo([i \in 1..Len(files) |->
             IF files[i].name \in names THEN Len(files[i].df.rows) ELSE 0], Len(files))
CountsFollowProvenance ==
    final_summary.set =>
      /\ final_summary.processing_breakdown.ofac_records = RowsFrom({F_ofac})
      /\ final_summary.processing_breakdown.un_records = RowsFrom(UnFileNames)
      /\ final_summary.processing_breakdown.pdf_records = RowsFrom({F_pdf})
      /\ final_summary.processing_breakdown.other_records = 0

\* C15: Name is required: no row of a table written by the UN extractor has an
\* empty Name.
UnNameRequired ==
    \A f \in 1..Len(un_files) :
      \A r \in 1..Len(un_files[f].table.rows) : un_files[f].table.rows[r].Name # <<>>

Docs == DOMAIN pdf_files
NoneConverted == \A d \in Docs : pdf_files[d] = "pdf_raises"
NoneEncoded == \A d \in Docs : pdf_files[d] \in {"pdf_raises", "b64_fails", "b64_raises"}
NoneExtracted == \A d \in Docs : pdf_files[d] \notin CsvWritten

\* C16 as stated: the run ends only at the consolidation stage; no failure of
\* an earlier stage ends it.
AbortOnlyAtConsolidation ==
    wf_pc = "returned" => wf_step = 6

\* C16: the run ends early exactly when step 1 converts no document or step 2
\* encodes no document; a failed step 3, 4 or 5 never ends it, and in every
\* other run the consolidation is executed and the run fails exactly when the
\* consolidation fails.
AbortOnlyAtCriticalSteps ==
    /\ wf_pc = "returned" =>
         \/ wf_step = 1 /\ wf_result = "False" /\ NoneConverted
         \/ wf_step = 2 /\ wf_result = "False" /\ NoneEncoded /\ ~NoneConverted
         \/ /\ wf_step = 6 /\ ~NoneEncoded /\ pc \in {"done", "failed"}
            /\ wf_result = (IF pc = "failed" THEN "False" ELSE "True")
    /\ wf_step \in {3, 4, 5} => wf_result = "running"

\* a run in which the delegated extraction fails for every document and the
\* OFAC source is unavailable still consolidates the UN table and succeeds
AbortOnlyAtCriticalStepsWitness ==
    /\ wf_pc = "returned" /\ wf_result = "True"
    /\ gemini_api_key /\ NoneExtracted /\ ofac_source = "raises"
    /\ final_summary.set

Converted(d) ==
    \E k \in 1..Len(conversion_results) :
        conversion_results[k].pdf_file = d /\ conversion_results[k].success
Encoded(d) == \E k \in 1..Len(base64_results) : base64_results[k].pdf_file = d
Extracted(d) == \E k \in 1..Len(disk) : disk[k].name = CsvFilename(d)

\* C17: every document of a batch is carried through each of the three batch
\* stages as far as its own processing allows, whatever happens to the other
\* documents: if its conversion does not fail it is in the conversion results,
\* if its encoding does not fail either it is in the base64 results, and if
\* its delegated extraction succeeds too (an API key being set) its CSV is
\* written in the course of the run.
DocumentIsolation ==
    \A d \in 1..(MaxPdfs + 1) :
        (d \in Docs /\ wf_pc = "step1") ~>
            /\ d \in Docs
            /\ pdf_files[d] # "pdf_raises" => Converted(d)
            /\ pdf_files[d] \notin {"pdf_raises", "b64_fails", "b64_raises"} => Encoded(d)
            /\ (pdf_files[d] \in CsvWritten /\ gemini_api_key) => Extracted(d)

\* the second document gets its CSV although the first one failed at encoding
DocumentIsolationWitness ==
    /\ Len(pdf_files) >= 2 /\ pdf_files[1] = "b64_raises" /\ pdf_files[2] = "ok"
    /\ Extracted(2) /\ ~Encoded(1) /\ Converted(1)

UnreadableTables ==
    Cardinality({i \in 1..Len(files) : files[i].df = Unreadable})

\* C18: the structured summary counts the degraded outcomes: one of its
\* counts is, in every run, the number of source tables that could not be
\* read during the consolidation.
UnreadTablesCounted ==
    \/ [](final_summary.set => final_summary.total_records = UnreadableTables)
    \/ [](final_summary.set => final_summary.duplicate_removed = UnreadableTables)
    \/ [](final_summary.set => final_summary.processing_breakdown.pdf_records = UnreadableTables)
    \/ [](final_summary.set => final_summary.processing_breakdown.ofac_records = UnreadableTables)
    \/ [](final_summary.set => final_summary.processing_breakdown.un_records = UnreadableTables)
    \/ [](final_summary.set => final_summary.processing_breakdown.other_records = UnreadableTables)

Usable(df) == df # Unreadable /\ Len(df.rows) > 0

\* C19: when the consolidation finds no source table, or only empty or
\* unreadable ones, it fails, no output table is written, no summary is set,
\* and run_workflow returns False.
ConsolidationFailureTerminal ==
    /\ (pc \in {"done", "failed"} /\ \A i \in 1..Len(files) : ~Usable(files[i].df))
          => pc = "failed"
    /\ pc = "failed" => final_df = Unreadable /\ ~final_summary.set
    /\ (pc = "failed" /\ wf_pc = "returned") => wf_result = "False"
    /\ (pc = "failed" /\ wf_pc # "returned") => wf_pc = "in_step6"

\* a run whose only source tables are an unreadable and a header-only CSV
ConsolidationFailureTerminalWitness ==
    /\ wf_pc = "returned" /\ pc = "failed" /\ Len(files) = 2
    /\ \E i, j \in 1..2 : files[i].df = Unreadable /\ files[j].df # Unreadable

\* the names of the rows the producers of the current run deliver
CurrentSourceNames ==
    (IF ofac_source = "rows" THEN {S_A} ELSE {})
    \cup (IF un_source = "rows" THEN {S_B} ELSE {})
    \cup {RowName(d) : d \in {x \in DOMAIN pdf_files : pdf_files[x] = "ok" /\ gemini_api_key}}

\* C21: no state is carried from one run to the next: every row of a run's
\* consolidated table comes from a source table produced in that run.
NoStateCarried ==
    (pc = "done" /\ wf_pc \in {"in_step6", "summary", "returned"}) =>
        \A i \in 1..Len(final_df.rows) : final_df.rows[i].Name \in CurrentSourceNames

\* the cleaned text of the response
Cleaned == clean_csv_response(ResponseText(csv_parts))
GeminiCalled == gemini_result # NoResult /\ csv_parts # NoResponse

\* C22 as stated: a response whose first row, read as a CSV header, has not
\* exactly 17 columns is warned about and still comes back as a success
\* result holding the cleaned content.
RejectedStillReturned ==
    GeminiCalled =>
        /\ gemini_warned <=> HeaderFieldCount(Cleaned) # 17
        /\ gemini_warned => gemini_result.success /\ gemini_result.csv_content = Cleaned

\* C22: the response is rejected exactly when its first row, read as a CSV
\* header, has not 17 columns (or there is no first row); rejection changes
\* nothing in the result: rejected or not, the call returns the cleaned content
\* with success when the file could be saved and "Failed to save CSV file"
\* when it could not.
RejectionNeverBlocks ==
    GeminiCalled =>
        /\ gemini_warned <=> HeaderFieldCount(Cleaned) # 17
        /\ IF save_ok
           THEN gemini_result.success /\ gemini_result.csv_content = Cleaned
           ELSE gemini_result = [success |-> FALSE, error |-> "Failed to save CSV file"]
RejectionNeverBlocksWitness ==
    /\ GeminiCalled /\ gemini_warned /\ gemini_result.success
    /\ csv_parts.open = <<>> /\ Len(csv_parts.block) > 17
    /\ gemini_result.csv_content = Cleaned

\* C23: a response that fails validation comes back with a validation warning
\* flag: what the caller receives besides the content differs from what it
\* receives for a validated response.
AcceptedResult ==
    [success |-> TRUE, output_path |-> "csv_filename",
     message |-> "Conversion completed successfully"]
ValidationWarningFlag ==
    GeminiCalled /\ gemini_warned /\ gemini_result.success =>
        [f \in DOMAIN gemini_result \ {"csv_content"} |-> gemini_result[f]] # AcceptedResult

\* C24: a tabular block between an opening fence, tagged csv or not, and a
\* closing fence is cleaned to exactly the block.
Fenced ==
    /\ csv_parts.open # <<>> /\ csv_parts.close # <<>>
    /\ csv_parts.block # <<>>
FencesStripped ==
    GeminiCalled /\ gemini_result.success /\ Fenced =>
        gemini_result.csv_content = csv_parts.block

\* the name records of the entity of the document, the row extracted from it
TheNames == ofac_doc.ns_entity[1].names
PrimaryRecords == {k \in 1..Len(TheNames) : TheNames[k].isPrimary = S_true}
FirstTruthy(texts) ==
    IF SelectSeq(texts, Truthy) = <<>> THEN <<>> ELSE SelectSeq(texts, Truthy)[1]
NonPrimaryNames ==
    Flatten([k \in 1..Len(TheNames) |->
        IF k \in PrimaryRecords THEN <<>> ELSE SelectSeq(TheNames[k].translations, Truthy)])
AllPrimaryNames ==
    Flatten([k \in 1..Len(TheNames) |->
        IF k \in PrimaryRecords THEN SelectSeq(TheNames[k].translations, Truthy) ELSE <<>>])
NamesExtracted == ofac_pc = "done" /\ ofac_doc.ns_entity # <<>>

\* C25 as stated: the Name of a retained entity is the first non-empty
\* translated name of the first name record flagged primary, and its Aliases
\* are the non-empty translated names of the non-primary records, in document
\* order.
NameFromFirstPrimaryRecord ==
    NamesExtracted /\ extracted_data # <<>> =>
        /\ PrimaryRecords # {}
        /\ extracted_data[1].Name = FirstTruthy(TheNames[Min(PrimaryRecords)].translations)
        /\ extracted_data[1].Aliases = Join(NonPrimaryNames, S_sep)

\* C25: an entity is retained exactly when a name record flagged primary has a
\* non-empty translated name; its Name is the first such name in document
\* order (the first primary record may have none), every other name of a
\* primary record is neither Name nor alias, and its Aliases are the non-empty
\* translated names of the records not flagged primary, in document order.
NameFromFirstPrimaryName ==
    NamesExtracted =>
        IF AllPrimaryNames = <<>> THEN extracted_data = <<>>
        ELSE /\ Len(extracted_data) = 1
             /\ extracted_data[1].Name = AllPrimaryNames[1]
             /\ extracted_data[1].Aliases = Join(NonPrimaryNames, S_sep)
NameFromFirstPrimaryNameWitness ==
    /\ NamesExtracted /\ Len(TheNames) = 3
    /\ PrimaryRecords = {1, 2}
    /\ Len(AllPrimaryNames) = 3
    /\ extracted_data[1].Name = NameText(1, 1)
    /\ extracted_data[1].Aliases = NameText(3, 1) \o S_sep \o NameText(3, 2)

NotRaising(entity) == ~entity.raises
HasName(row) == row.Name # <<>>
\* the rows of a list of entities none of which raises
RowsOf(list) == SelectSeq([k \in 1..Len(list) |-> extract_entity_data(list[k])], HasName)

\* C26: an entity on which the extraction raises gives no row, the others give
\* the rows they give in the document without it, and process_sanctions_data
\* returns its table.
EntityIsolation ==
    /\ ofac_pc \in {"start", "loop", "done"}
    /\ ofac_pc = "done" /\ ofac_doc.ns_entity # <<>> =>
         ofac_df.rows = RowsOf(SelectSeq(ofac_doc.ns_entity, NotRaising))
EntityIsolationWitness ==
    /\ ofac_pc = "done" /\ Len(ofac_doc.ns_entity) = 2
    /\ ofac_doc.ns_entity[1].raises /\ ofac_doc.ns_entity[1].names[1].isPrimary = S_true
    /\ ofac_doc.ns_entity[1].action = S_add
    /\ ~ofac_doc.ns_entity[2].raises
    /\ Len(ofac_df.rows) = 1 /\ ofac_df.rows[1].Name = RowName(2)

\* the entity lists the four lookups find
LookupResults ==
    {ofac_doc.entity, ofac_doc.ns_entity}
    \cup {ofac_doc.entities[j] : j \in 1..Len(ofac_doc.entities)}
    \cup {ofac_doc.ns_entities[j] : j \in 1..Len(ofac_doc.ns_entities)}

\* C30: the empty table for an unrecognised structure is returned only when
\* none of the four lookups finds an entity; otherwise the list processed is
\* not empty and not shorter than the list of any lookup.
EntitiesDiscovered ==
    ofac_pc # "start" =>
        /\ entities = <<>> => \A found \in LookupResults : found = <<>>
        /\ \A found \in LookupResults : Len(entities) >= Len(found)

RECURSIVE SumOver(_, _)
SumOver(f, keys) ==
    IF keys = {} THEN 0
    ELSE LET k == CHOOSE x \in keys : TRUE IN f[k] + SumOver(f, keys \ {k})
CategorySum == SumOver(final_summary.processing_breakdown, DOMAIN ZeroSummary)

\* C27: after a successful consolidation duplicate_removed is the number of
\* concatenated rows minus the number of rows of the final table,
\* total_records + duplicate_removed is the sum of the four category counts,
\* and the counts of watchlist_distribution sum to total_records.
SummaryAccounting ==
    pc = "done" =>
        /\ final_summary.set
        /\ final_summary.total_records = Len(final_df.rows)
        /\ final_summary.duplicate_removed =
             Len(ConcatRows(all_dataframes)) - Len(final_df.rows)
        /\ final_summary.total_records + final_summary.duplicate_removed = CategorySum
        /\ CategorySum = total_records
        /\ SumOver(final_summary.watchlist_distribution,
                   DOMAIN final_summary.watchlist_distribution)
             = final_summary.total_records
SummaryAccountingWitness ==
    /\ pc = "done" /\ Len(files) = 2
    /\ final_summary.total_records = 2 /\ final_summary.duplicate_removed = 1
    /\ final_summary.processing_breakdown.pdf_records = 1
    /\ final_summary.processing_breakdown.other_records = 2
    /\ Cardinality(DOMAIN final_summary.watchlist_distribution) = 2

\* the row was extracted and its DOB_DJ normalised
BirthDone == dob_result # None

\* C28 as stated: for every valid date given as '%d %b %Y' or '%Y-%m-%d' the
\* normalised DOB_DJ is the date as dd MMM yyyy and DOB_YEAR is its year.
BirthdateRoundTrip ==
    BirthDone =>
        \A y \in BirthYears : \A m \in 1..12 : \A d \in BirthDays :
            ValidDate(y, m, d) /\ date_str \in BirthTexts(y, m, d) =>
                /\ dob_result = TextDbY(y, m, d)
                /\ entity_data.DOB_YEAR = Decimal(y)

\* C28: for every valid date of a year from 1000 on given as '%d %b %Y' or
\* '%Y-%m-%d', the intermediate DOB_DJ is dd/mm/yyyy of the date, the
\* normalised DOB_DJ is the date as dd MMM yyyy (day and month not swapped)
\* and DOB_YEAR is its year.
BirthdateRoundTripFourDigitYears ==
    BirthDone =>
        \A y \in BirthYears : \A m \in 1..12 : \A d \in BirthDays :
            y >= 1000 /\ ValidDate(y, m, d) /\ date_str \in BirthTexts(y, m, d) =>
                /\ entity_data.DOB_DJ = Pad2(d) \o <<"/">> \o Pad2(m) \o <<"/">> \o Year4(y)
                /\ dob_result = TextDbY(y, m, d)
                /\ entity_data.DOB_YEAR = Decimal(y)
\* 10 December 1958: both 10/12 and 12/10 are dates
BirthdateRoundTripFourDigitYearsWitness ==
    /\ BirthDone /\ date_str = TextYmd(1958, 12, 10)
    /\ entity_data.DOB_DJ = <<"1","0","/","1","2","/","1","9","5","8">>
    /\ dob_result = <<"1","0"," ","D","e","c"," ","1","9","5","8">>

\* step 3 returned True
Step3Succeeded == gemini_api_key /\ ~NoneEncoded /\ ~NoneExtracted

\* C29: when the loop over the steps has run to its end, steps 1, 2 and 6
\* have succeeded and steps 4 and 5 are counted, so at least 5 steps are
\* counted and the branch of partial completion is not taken; the run returns
\* False exactly when it is interrupted or step 1, 2 or 6 fails, and True
\* otherwise, whatever steps 3, 4 and 5 did.
StepOutcomes ==
    /\ (wf_pc = "summary" \/ (wf_pc = "returned" /\ pc = "done")) =>
          /\ ~NoneConverted /\ ~NoneEncoded /\ final_summary.set
          /\ success_steps = (IF Step3Succeeded THEN 6 ELSE 5)
    /\ wf_pc = "cancelled" => wf_result = "False"
    /\ wf_pc = "returned" =>
          /\ wf_result \in {"True", "False"}
          /\ wf_result = "False" <=> (NoneConverted \/ NoneEncoded \/ pc = "failed")
StepOutcomesWitness ==
    /\ wf_pc = "returned" /\ wf_result = "True" /\ success_steps = 5
    /\ ~gemini_api_key /\ ofac_source = "raises" /\ un_source = "rows"

====
